---- MODULE Spec2Model ----
(***************************************************************************)
(* Rollout collection, reward reconciliation and evaluation partitioning   *)
(* of MyOnPolicyAlgorithm (python/myPPO/my_on_policy_algorithm.py).        *)
(*                                                                         *)
(* The simulator and the policy network are external: every value they     *)
(* hand to the algorithm (step rewards, done flags, the fields of the info *)
(* payload, value estimates, the callback's verdict) is an input, drawn    *)
(* from a small set at the point where the code reads it.                  *)
(***************************************************************************)
EXTENDS Integers, Sequences, FiniteSets, TLC

\* ------------------------------------------------------------------ bounds
NumEnvs == 2
NRolloutSteps == 2
MaxEvalEnvs == 4
MaxEvalEpisodes == 10

Envs == 0 .. (NumEnvs - 1)
Rows == 0 .. (NRolloutSteps - 1)

\* ------------------------------------------------------------------ inputs
\* The code copies reward values and never branches on them.  The provisional
\* reward of a step is 0 and the authoritative reward of simulator step k is
\* k + 1, so that every entry of an authoritative list differs from every
\* provisional reward and from every other entry, and a slot holding the
\* wrong value shows.  The simulator may send a list of any length.
RawRewards == {0}
AuthList(n) == [i \in 1 .. n |-> i]
AuthSeqs == {AuthList(n) : n \in 0 .. NRolloutSteps}
TerminalValues == {1, 2}
GammaValues == {1, 2}
StepIdxs == 0 .. NRolloutSteps
Amounts == 0 .. NRolloutSteps
InfoLens == (NumEnvs - 1) .. (NumEnvs + 1)

\* eval_model_track checked for termination: the number of environments and
\* of episodes.
MaxFairEnvs == 3
MaxFairEpisodes == 7

\* generate_map_and_rotations: the orientation range of the spawn mode, the
\* track numbers of the difficulty (a difficulty has at least one map) and
\* the number of episodes.
MaxGenEpisodes == 20
MaxTracks == 4
RotationRanges == {<<0 - 15, 15>>, <<0 - 45, 45>>, <<0, 0>>, <<0 - 8, 7>>}
TrackLists == {[k \in 1 .. len |-> 6 + k] : len \in 1 .. MaxTracks}

\* collect_rollouts followed cycle by cycle: the number of environments and
\* the horizon; learn runs two cycles.
CycNumEnvs == 2
RunMaxEnvs == 2
RunMaxEpisodes == 3
RepMaxLength == 2
RecMaxLength == 2
GaeHorizon == 3
ResMaxEpisodes == 3
CycRolloutSteps == 2
CycTotalTimesteps == CycRolloutSteps * CycNumEnvs + 1

\* What step_wrapper reports for one environment: no done flag, or a done
\* flag with the end event of the terminal info.
EndEvents == {"Success", "OutOfTime"}
StepOutcomes == {"running"} \cup EndEvents

\* The action space (a Box with its bounds, or a Discrete space) and the
\* batches of actions the policy may put out for it: a Box policy is not held
\* to the bounds.
ActionSpaces == {[box |-> TRUE, low |-> 0 - 1, high |-> 1],
                 [box |-> FALSE, low |-> 0, high |-> 2]}
ActionBatches(space) ==
    IF space.box THEN {<<0 - 2, 2>>, <<0 - 1, 1>>, <<0, 0>>}
    ELSE {<<0, 2>>, <<1, 1>>}

\* A rate is a pair <<count, total>>; NoRate while it has not been computed.
NoRate == <<0, 0>>
NoEpisodesResults ==
    [completed_episodes |-> 0, success_count |-> 0, timeout_count |-> 0,
     computed |-> 0, success_rate |-> NoRate, timeout_rate |-> NoRate]

\* Observation batches are told apart by where they come from: whatever
\* self._last_obs held before the cycle, the batch returned by env.reset(),
\* the batch returned by the step call of loop iteration t (t = 0, 1, ...) and
\* a batch requested from the environments by inference itself.
StaleObs == 0 - 2
FreshObs == 0 - 1
ResetObs == 0
StepObs(t) == t + 1

\* learn(total_timesteps): one timestep more than a cycle collects, so the
\* while loop of learn runs two collection cycles.
TotalTimesteps == NRolloutSteps * NumEnvs + 1

VARIABLES
    pc,                     \* position of the control flow in learn / collect_rollouts
    error,                  \* the exception that ended the run ("none" while running)
    gamma,                  \* self.gamma
    iteration,              \* learn: iteration
    num_timesteps,          \* self.num_timesteps
    total_timesteps,        \* collect_rollouts: total_timesteps (local)
    n_steps,                \* collect_rollouts: n_steps
    idx,                    \* loop index of the per-environment for loops
    reward_correction_dict, \* env -> (simulator step -> buffer row)
    buf_pos,                \* rollout_buffer.pos
    buf_rewards,            \* rollout_buffer.rewards[row][env]
    insertpos,              \* row returned by the last rollout_buffer.add
    raw_rewards,            \* rewards as returned by step_wrapper
    rewards,                \* rewards after the time-limit bootstrap
    dones,                  \* dones as returned by step_wrapper
    infos_len,              \* len(infos)
    bootstrapped,           \* env -> the bootstrap condition held in this iteration
    terminal_value,         \* env -> V(terminal_observation) when bootstrapped
    info_step,              \* env -> int(info['step']) read in this iteration
    infos_rewards,          \* env -> infos[env]['rewards'] read at reconciliation
    info_amount,            \* env -> int(infos[env]['amount_of_steps']) read there
    len_before,             \* env -> len(ledger) when the iteration began
    reconciled,             \* env -> the ledger that the last reconciliation applied
    corrections,            \* row -> env -> number of reconciliation overwrites
    advantage_calls,        \* compute_returns_and_advantage calls in this cycle
    train_calls,            \* train() calls of this learn run
    use_fresh_obs,          \* self.use_fresh_obs
    last_obs,               \* self._last_obs: the batch it holds
    new_obs,                \* collect_rollouts: new_obs
    infer_obs,              \* the batch the last inference was run on
    obs_requests,           \* observation requests issued by inference in this cycle
    eval_fn,                \* the evaluation procedure that is running
    eval_pc,                \* position in that procedure
    n_envs,                 \* eval_model_track: n_envs
    n_eval_episodes,        \* eval_model_track: n_eval_episodes
    episode_count_targets,  \* eval_model_track: episode_count_targets
    episode_counts,         \* eval_model_track: episode_counts
    map_and_rotations_counter,
    rotation_range,         \* Spawn.getOrientationRange(rotationMode): <<min, max>>
    track_numbers,          \* MapType.getAllTracksnumbersOfDifficulty(difficulty)
    rotation_step,          \* generate_map_and_rotations: step
    map_and_rotations,      \* the generated sequence of (map, rotation) pairs
    finished_episodes,      \* eval_model_track: finished_episodes
    slot_pair,              \* slot -> index (1, 2, ...) of the generated pair its
                            \*   running episode was started from, 0 when none
    handed,                 \* the pairs handed to resets, in the order of the resets
    pair_episodes,          \* pair index -> counted episodes started from that pair
    stray_episodes,         \* counted episodes started from no generated pair
    eval_error,             \* the exception that ended the evaluation ("none" otherwise)
    bundle_pc,              \* position in get_obs_bundled_calls
    bundle_error,           \* the exception that ended it ("none" otherwise)
    bundle_i,               \* loop index of its two for loops
    frame_stacking,         \* whether the environments stack frames (frame_stacking > 1)
    return_all_obsstrings,  \* get_obs_bundled_calls: return_all_obsstrings
    all_obsstrings,         \* the combined response of the single request
    all_observations,       \* the observations decoded from it, in order
    obs_memory,             \* slot -> memory rollovers done on that environment
    obs_buf,                \* slot -> observation saved by env._save_obs
    rtn_obs,                \* the value returned, <<>> while there is none
    cyc_pc,                 \* position in learn / collect_rollouts, cycle by cycle
    cyc_error,              \* the exception that ended that run ("none" otherwise)
    cyc_iteration,          \* learn: iteration
    cyc_num_timesteps,      \* self.num_timesteps
    cyc_n_steps,            \* collect_rollouts: n_steps
    cyc_idx,                \* collect_rollouts: idx of for idx, done in enumerate(dones)
    action_space,           \* self.action_space
    actions,                \* the batch of actions the policy put out last
    clipped_actions,        \* the batch passed to step_wrapper last
    buffer_actions,         \* the action batch added to the rollout buffer last
    episodes_results,       \* the EpisodesResults of the cycle or evaluation
    done_flags,             \* done flags counted since it was created
    rates_read,             \* reads of its rates since it was created
    premature_reads,        \*   ... of which before computeRates
    late_observes,          \* terminal infos it observed after computeRates
    rollout_best_success_rate,
    rollout_best_model_name,
    model_files,            \* names of the checkpoints of this run on disk
    best_file_missing,      \* os.remove found the previous best checkpoint gone
    run_fn,                 \* the evaluation procedure that is running, step by step
    run_pc,                 \* position in it
    run_error,              \* the exception that ended it ("none" otherwise)
    run_n_envs,             \* n_envs
    run_n_episodes,         \* n_eval_episodes / n_episodes
    run_log,                \* log
    run_counts,             \* episode_counts
    run_targets,            \* episode_count_targets
    run_finished,           \* finished_episodes
    video_filename,         \* slot -> the video target set on that environment last
    episode_results,        \* the identical-start test's list of signatures
    success_count,          \* its success_count
    most_common_episode_result_rate,
    run_counter,            \* map_and_rotations_counter
    done_unread,            \* the last step call reported a done flag for a slot
                            \*   that owed no episode
    rep_pc,                 \* position in replay_episode
    rep_error,              \* the exception that ended it ("none" otherwise)
    episode_length_file,    \* what episode_length.npy of the directory holds
    recorded_episode_length,
    recorded,               \* step -> recorded <<action, value, log_prob>>
    reproduced,             \* step -> reproduced <<action, value, log_prob>>
    rep_i,                  \* loop index of its loops
    comparisons,            \* np.allclose calls made
    rec_pc,                 \* position in record_episodes / replay_episodes
    rec_error,              \* the exception that ended them ("none" otherwise)
    rec_n_episodes,         \* n_episodes_per_setting of the recording
    replay_n_episodes,      \* n_episodes_per_setting of the replay
    n_episodes_file,        \* what n_episodes.npy holds
    rec_setting,            \* the difficulty of the loops, 1 .. 3
    rec_idx,                \* idx of the episode loops
    rec_pairs,              \* len(map_and_rotations) of the setting
    rec_steps,              \* iterations of while not done in record_episode
    rec_lists,              \* len() of its five lists
    dirs_created,           \* the episode directories made by record_episodes
    episode_steps,          \* <<directory, steps of the episode recorded there>>
    files_saved,            \* the artifacts saved
    lengths_saved,          \* <<directory, content of its episode_length.npy>>
    dirs_visited,           \* the episode directories replay_episodes went to
    files_loaded,           \* the artifacts loaded
    gae_pc,                 \* before or after compute_returns_and_advantage
    gae_gamma,              \* rollout_buffer.gamma
    gae_lambda,             \* rollout_buffer.gae_lambda
    gae_rewards,            \* rollout_buffer.rewards of one environment
    gae_values,             \* rollout_buffer.values
    gae_episode_starts,     \* rollout_buffer.episode_starts
    gae_dones,              \* dones of the last step call
    gae_last_values,        \* values: the estimate for the last new_obs
    gae_returns,            \* rollout_buffer.returns
    res_pc,                 \* an EpisodesResults used on its own
    res_finalized,          \* computeRates calls since its last observation
    rates_once,             \* its rates after the first of them
    row_pc,                 \* position in learn / collect_rollouts, row by row
    row_error,              \* the exception that ended that run ("none" otherwise)
    row_iteration,          \* learn: iteration
    row_num_timesteps,      \* self.num_timesteps
    row_n_steps,            \* collect_rollouts: n_steps
    row_idx,                \* idx of its per-environment for loops
    row_use_fresh_obs,      \* self.use_fresh_obs
    row_use_bundled_calls,  \* self.use_bundled_calls
    last_episode_starts,    \* self._last_episode_starts
    row_last_obs,           \* self._last_obs
    row_new_obs,            \* collect_rollouts: new_obs
    row_dones,              \* collect_rollouts: dones
    row_dict,               \* reward_correction_dict
    obs_given,              \* the batch the policy was run on last (obs_tensor)
    obs_returned,           \* obs as returned by inferFromObservations last
    acquisitions,           \* get_obs_* calls of this cycle
    acquired_envs,          \* the environments the last of them asked
    buffer_observations,    \* row -> rollout_buffer.observations
    buffer_inferred_from,   \* row -> the batch its actions, values and
                            \*   log-probabilities were inferred from
    buffer_episode_starts,  \* row -> rollout_buffer.episode_starts
    buffer_steps,           \* row -> env -> int(info['step']) registered for it
    lrn_pc,                 \* position in learn
    lrn_error,              \* the exception that ended it ("none" otherwise)
    lrn_iteration,          \* iteration
    lrn_num_timesteps,      \* self.num_timesteps
    lrn_total_timesteps,    \* total_timesteps
    lrn_num_envs,           \* env.num_envs
    lrn_n_rollout_steps,    \* self.n_steps
    lrn_n_steps,            \* collect_rollouts: n_steps
    log_interval,           \* log_interval
    lrn_advantages,         \* compute_returns_and_advantage calls so far
    lrn_trains,             \* train() calls so far
    lrn_evals,              \* <<iteration, procedure>> of every evaluation call so far
    lrn_cycles,             \* collection cycles completed
    ft_pc,                  \* position in test_fresh_obs_improves
    ft_error,               \* the exception that ended it ("none" otherwise)
    ft_use_fresh_obs,       \* self.use_fresh_obs
    fresh_obs_status,       \* fresh_obs_status
    ft_before,              \* self.use_fresh_obs when the test was called
    ft_args,                \* the arguments of the test
    ft_calls,               \* the eval_model_track calls made, with the mode of each
    use_bundled_calls,      \* self.use_bundled_calls of the recording model
    rec_frame_stacking,     \* env.envs[0].frame_stacking
    memory_updates,         \* updates of slot 0's frame-stack memory since resetMemory
    recorded_updates,       \* <<directory, updates made while recording it>>
    replayed_updates        \* <<directory, updates made while replaying it>>

cvars == <<pc, error, gamma, iteration, num_timesteps, total_timesteps, n_steps,
           idx, reward_correction_dict, buf_pos, buf_rewards, insertpos,
           raw_rewards, rewards, dones, infos_len, bootstrapped, terminal_value,
           info_step, infos_rewards, info_amount, len_before, reconciled,
           corrections, advantage_calls, train_calls>>
obsvars == <<use_fresh_obs, last_obs, new_obs, infer_obs, obs_requests>>
itervars == <<raw_rewards, rewards, dones, infos_len, bootstrapped,
              terminal_value, info_step, infos_rewards, info_amount,
              len_before, reconciled>>
gvars == <<rotation_range, track_numbers, rotation_step, map_and_rotations>>
lvars == <<finished_episodes, slot_pair, handed, pair_episodes, stray_episodes,
           eval_error>>
evars == <<eval_fn, eval_pc, n_envs, n_eval_episodes, episode_count_targets,
           episode_counts, map_and_rotations_counter, gvars, lvars>>
bvars == <<bundle_pc, bundle_error, bundle_i, frame_stacking,
           return_all_obsstrings, all_obsstrings, all_observations, obs_memory,
           obs_buf, rtn_obs>>
kvars == <<cyc_pc, cyc_error, cyc_iteration, cyc_num_timesteps, cyc_n_steps,
           cyc_idx,
           action_space, actions, clipped_actions, buffer_actions,
           episodes_results, done_flags, rates_read, premature_reads,
           late_observes, rollout_best_success_rate, rollout_best_model_name,
           model_files, best_file_missing>>
svars == <<action_space, actions, clipped_actions, episodes_results,
           done_flags, rates_read, premature_reads, late_observes>>
k1vars == <<cyc_pc, cyc_error, cyc_iteration, cyc_num_timesteps, cyc_n_steps,
            cyc_idx,
            buffer_actions, rollout_best_success_rate, rollout_best_model_name,
            model_files, best_file_missing>>
qvars == <<run_fn, run_pc, run_error, run_n_envs, run_n_episodes, run_log,
           run_counts, run_targets, run_finished, video_filename,
           episode_results, success_count, most_common_episode_result_rate,
           run_counter, done_unread>>
oldvars == <<cvars, obsvars, evars, bvars>>
pvars == <<rep_pc, rep_error, episode_length_file, recorded_episode_length,
           recorded, reproduced, rep_i, comparisons>>
rvars == <<rec_pc, rec_error, rec_n_episodes, replay_n_episodes,
           n_episodes_file, rec_setting, rec_idx, rec_pairs, rec_steps,
           rec_lists, dirs_created, episode_steps, files_saved, lengths_saved,
           dirs_visited, files_loaded>>
avars == <<gae_pc, gae_gamma, gae_lambda, gae_rewards, gae_values,
           gae_episode_starts, gae_dones, gae_last_values, gae_returns>>
zvars == <<res_pc, res_finalized, rates_once>>
wvars == <<row_pc, row_error, row_iteration, row_num_timesteps, row_n_steps,
           row_idx, row_use_fresh_obs, row_use_bundled_calls,
           last_episode_starts, row_last_obs, row_new_obs, row_dones, row_dict,
           obs_given, obs_returned, acquisitions, acquired_envs,
           buffer_observations, buffer_inferred_from, buffer_episode_starts,
           buffer_steps>>
lnvars == <<lrn_pc, lrn_error, lrn_iteration, lrn_num_timesteps,
            lrn_total_timesteps, lrn_num_envs, lrn_n_rollout_steps, lrn_n_steps,
            log_interval, lrn_advantages, lrn_trains, lrn_evals, lrn_cycles>>
fvars == <<ft_pc, ft_error, ft_use_fresh_obs, fresh_obs_status, ft_before,
           ft_args, ft_calls>>
rxvars == <<use_bundled_calls, rec_frame_stacking, memory_updates,
            recorded_updates, replayed_updates>>
yvars == <<wvars, lnvars, fvars, rxvars>>
xvars == <<kvars, qvars, pvars, rvars, avars, zvars, yvars>>
x3vars == <<kvars, qvars, pvars, rvars, avars, zvars>>
notw == <<oldvars, x3vars, lnvars, fvars, rxvars>>
notln == <<oldvars, x3vars, wvars, fvars, rxvars>>
notf == <<oldvars, x3vars, wvars, lnvars, rxvars>>
notk == <<oldvars, qvars, pvars, rvars, avars, zvars, yvars>>
notq == <<oldvars, k1vars, pvars, rvars, avars, zvars, yvars>>
notp == <<oldvars, kvars, qvars, rvars, avars, zvars, yvars>>
notr == <<oldvars, k1vars, qvars, pvars, avars, zvars, wvars, lnvars, fvars>>
nota == <<oldvars, kvars, qvars, pvars, rvars, zvars, yvars>>
notz == <<oldvars, k1vars, qvars, pvars, rvars, avars, yvars>>
vars == <<oldvars, xvars>>

\* ----------------------------------------------------------------- helpers
Max(S) == CHOOSE x \in S : \A y \in S : y <= x
Min(a, b) == IF a <= b THEN a ELSE b
EmptyDict == <<>>
DictLen(d) == Cardinality(DOMAIN d)
ZeroRow == [e \in Envs |-> 0]
AllFalse == [e \in Envs |-> FALSE]


\* ------------------------------------------------- double-precision floats
\* Python's float is the IEEE-754 binary64 format: every result of /, * and +
\* is the exact result rounded to 53 significant bits, ties to even.  The
\* values in play are small, so a non-negative float is kept in fixed point:
\* i is its integer part and f the bits of its fraction, most significant
\* first.  A signed float adds the flag neg.
Precision == 53

RECURSIVE BitLen(_)
BitLen(n) == IF n = 0 THEN 0 ELSE 1 + BitLen(n \div 2)

LeadingZeros(f) ==
    IF \A k \in DOMAIN f : f[k] = 0 THEN Len(f)
    ELSE (CHOOSE k \in DOMAIN f : f[k] = 1 /\ \A j \in 1 .. (k - 1) : f[j] = 0) - 1

\* Bit strings of at most ChunkBits bits and the numbers they denote.
ChunkBits == 12
ToBits(v, w) == [k \in 1 .. w |-> (v \div 2 ^ (w - k)) % 2]

RECURSIVE FromBits(_)
FromBits(b) == IF b = <<>> THEN 0 ELSE 2 * FromBits(SubSeq(b, 1, Len(b) - 1)) + b[Len(b)]

AnyOne(f) == \E k \in DOMAIN f : f[k] = 1

\* f plus one unit in its last place: <<carry out, bits>>.
IncBits(f) ==
    IF \A k \in DOMAIN f : f[k] = 1
    THEN <<1, [k \in DOMAIN f |-> 0]>>
    ELSE LET z == CHOOSE k \in DOMAIN f :
                      f[k] = 0 /\ \A j \in (k + 1) .. Len(f) : f[j] = 1
         IN  <<0, [k \in DOMAIN f |-> IF k < z THEN f[k] ELSE IF k = z THEN 1 ELSE 0]>>

\* The number of fraction bits that 53 significant bits leave to i + 0.f
KeptBits(i, f) ==
    IF i > 0 THEN Precision - BitLen(i) ELSE LeadingZeros(f) + Precision

\* Round i + 0.f (+ something below the last bit of f when sticky) to the
\* nearest float, ties to even.
RoundNearestEven(i, f, sticky) ==
    LET p == KeptBits(i, f)
    IN  IF Len(f) <= p THEN [i |-> i, f |-> f]
        ELSE LET kept == SubSeq(f, 1, p)
                 half == f[p + 1]
                 below == sticky \/ AnyOne(SubSeq(f, p + 2, Len(f)))
                 odd == IF p > 0 THEN kept[p] = 1 ELSE i % 2 = 1
             IN  IF half = 1 /\ (below \/ odd)
                 THEN LET r == IncBits(kept) IN [i |-> i + r[1], f |-> r[2]]
                 ELSE [i |-> i, f |-> kept]

\* The first k bits of the binary fraction r / d (0 <= r < d) and the
\* remainder left after them: <<bits, remainder>>.
\* Long division, ChunkBits bits at a time.
RECURSIVE DivBits(_, _, _)
DivBits(r, d, k) ==
    IF k = 0 THEN <<(<<>>), r>>
    ELSE LET c == IF k < ChunkBits THEN k ELSE ChunkBits
             v == r * 2 ^ c
             rest == DivBits(v % d, d, k - c)
         IN  <<ToBits(v \div d, c) \o rest[1], rest[2]>>

\* a / b for integers a >= 0, b > 0.
FloatDiv(a, b) ==
    LET q == DivBits(a % b, b, Precision + 1 + BitLen(b))
    IN  RoundNearestEven(a \div b, q[1], q[2] # 0)

\* The bits of f * m, m a natural number: <<carry out, bits>>.
\* Long multiplication, ChunkBits bits at a time.
RECURSIVE MulBits(_, _)
MulBits(f, m) ==
    IF f = <<>> THEN <<0, <<>>>>
    ELSE LET c == IF Len(f) < ChunkBits THEN Len(f) ELSE ChunkBits
             r == MulBits(SubSeq(f, c + 1, Len(f)), m)
             v == FromBits(SubSeq(f, 1, c)) * m + r[1]
         IN  <<v \div 2 ^ c, ToBits(v % 2 ^ c, c) \o r[2]>>

\* m * x for a natural number m and a non-negative float x.
FloatMul(m, x) ==
    LET r == MulBits(x.f, m)
    IN  RoundNearestEven(x.i * m + r[1], r[2], FALSE)

\* 1 - 0.f for a fraction f that is not zero.
OneMinus(f) == IncBits([k \in DOMAIN f |-> 1 - f[k]])[2]

\* m + x for an integer m and a non-negative float x.
FloatAdd(m, x) ==
    IF m + x.i >= 0
    THEN [neg |-> FALSE] @@ RoundNearestEven(m + x.i, x.f, FALSE)
    ELSE IF AnyOne(x.f)
         THEN [neg |-> TRUE] @@
              RoundNearestEven(0 - m - x.i - 1, OneMinus(x.f), FALSE)
         ELSE [neg |-> TRUE, i |-> 0 - m - x.i, f |-> <<>>]

\* ------------------------------------------- generate_map_and_rotations
\* RotationStep dividing the range into n parts instead of n - 1.
RotationStep_DivideByN(lo, hi, n) ==
    IF n = 0 THEN [neg |-> hi - lo > 0, i |-> hi - lo, f |-> <<>>]
    ELSE [neg |-> FALSE] @@ FloatDiv(hi - lo, n)

\* step = range_width / (n_eval_episodes - 1): evaluated when n is not 1;
\* with n = 0 the divisor is -1 and the quotient is the negated width.
RotationStep(lo, hi, n) ==
    IF n = 0 THEN [neg |-> hi - lo > 0, i |-> hi - lo, f |-> <<>>]
    ELSE [neg |-> FALSE] @@ FloatDiv(hi - lo, n - 1)

\* The value of step while the assignment has not been executed.
NoFloat == [neg |-> FALSE, i |-> 0, f |-> <<>>]

\* FloatToInt rounding toward minus infinity.
FloatToInt_Floor(x) ==
    IF x.neg THEN (IF AnyOne(x.f) THEN 0 - x.i - 1 ELSE 0 - x.i) ELSE x.i

\* int(x): truncation toward zero.
FloatToInt(x) == IF x.neg THEN 0 - x.i ELSE x.i

\* rotations: int(lo + width / 2) for a single episode, otherwise
\* int(lo + i * step) for i in range(n).
Rotations(lo, hi, n, st) ==
    IF n = 1
    THEN <<FloatToInt(FloatAdd(lo, FloatDiv(hi - lo, 2)))>>
    ELSE [k \in 1 .. n |-> FloatToInt(FloatAdd(lo, FloatMul(k - 1, st)))]

\* MapType(track): the member of the enumeration with that number.
MapType(track) == <<"MapType", track>>

\* tracks: track_numbers[i % len(track_numbers)] for i in range(n).
Tracks(tn, n) == [k \in 1 .. n |-> MapType(tn[((k - 1) % Len(tn)) + 1])]

\* list(zip(tracks, rotations))
Zip(a, b) == [k \in 1 .. Min(Len(a), Len(b)) |-> <<a[k], b[k]>>]

GenerateMapAndRotations(range, tn, n) ==
    Zip(Tracks(tn, n), Rotations(range[1], range[2], n, RotationStep(range[1], range[2], n)))

\* ------------------------------------------------ reward-correction ledger
\* RegisterError without the assertion that the step follows the last key.
RegisterError_NoSuccessorCheck(d, s) ==
    IF s \in DOMAIN d THEN "AssertionError:369" ELSE "none"

\* RegisterError without the assertion that the step is not yet a key.
RegisterError_NoDuplicateCheck(d, s) ==
    IF s # 0
    THEN IF DOMAIN d = {} THEN "ValueError:374"
         ELSE IF s # Max(DOMAIN d) + 1 THEN "AssertionError:374"
         ELSE "none"
    ELSE "none"

\* Exceptions are named by their type and the source line that raises them.
\* The outcome of the two assertions that guard an insertion of simulator
\* step s into ledger d: "none" when the insertion goes ahead.  max() of an
\* empty key view raises ValueError before the second assertion compares.
RegisterError(d, s) ==
    IF s \in DOMAIN d THEN "AssertionError:369"
    ELSE IF s # 0
         THEN IF DOMAIN d = {} THEN "ValueError:374"
              ELSE IF s # Max(DOMAIN d) + 1 THEN "AssertionError:374"
              ELSE "none"
         ELSE "none"

\* reward_correction_dict[idx][int(info['step'])] = insertpos
RegisterEntry(d, s, row) == (s :> row) @@ d

\* The condition of the time-limit bootstrap.
NeedsBootstrap(done, tobs, trunc) == done /\ tobs /\ trunc

\* rewards[idx] += self.gamma * terminal_value
BootstrapReward(r, g, v) == r + g * v

\* NeedsReconcile without the horizon case.
NeedsReconcile_DoneOnly(done, n) == done

\* NeedsReconcile in every iteration.
NeedsReconcile_Always(done, n) == TRUE

\* The condition under which an environment's ledger is reconciled.
NeedsReconcile(done, n) == done \/ n >= NRolloutSteps

\* ReconcileError without the comparison against amount_of_steps.
ReconcileError_NoAmountCheck(d, auth, amount) ==
    IF Len(auth) # DictLen(d) THEN "AssertionError:389"
    ELSE IF \E k \in DOMAIN d : k >= Len(auth) THEN "IndexError:391"
    ELSE "none"

\* The exception raised while reconciling ledger d against the authoritative
\* rewards auth and the reported amount_of_steps, "none" when there is none.
\* rewards[step] of a list shorter than step + 1 raises IndexError.
ReconcileError(d, auth, amount) ==
    IF Len(auth) # DictLen(d) THEN "AssertionError:389"
    ELSE IF \E k \in DOMAIN d : k >= Len(auth) THEN "IndexError:391"
    ELSE IF DictLen(d) # amount THEN "AssertionError:394"
    ELSE "none"

\* Whether the overwrite loop runs before the exception (if any) is raised.
ReconcileWrites(d, auth) ==
    Len(auth) = DictLen(d) /\ \A k \in DOMAIN d : k < Len(auth)

\* CorrectedReward reading rewards[step - 1]: index -1 is the last element.
CorrectedReward_OffByOne(auth, step, row) ==
    IF step = 0 THEN auth[Len(auth)] ELSE auth[step]

\* rollout_buffer.rewards[bufferpos][env_id] = rewards[step], for every
\* (step, bufferpos) of the ledger.  Python lists are 0-based, sequences 1-based.
CorrectedReward(auth, step, row) == auth[step + 1]

ReconcileRewards(buf, d, e, auth) ==
    [row \in DOMAIN buf |->
        IF \E k \in DOMAIN d : d[k] = row
        THEN [buf[row] EXCEPT
                 ![e] = CorrectedReward(auth, CHOOSE k \in DOMAIN d : d[k] = row, row)]
        ELSE buf[row]]

CountCorrections(cnt, d, e) ==
    [row \in DOMAIN cnt |->
        [cnt[row] EXCEPT
            ![e] = @ + Cardinality({k \in DOMAIN d : d[k] = row})]]

\* ------------------------------------------------------------- observations
\* inferFromObservations: the batch the policy is run on.
InferenceObs(fresh, last) == IF fresh THEN FreshObs ELSE last

\* inferFromObservations: the observation requests it issues (one bundled
\* call or one round of single calls in fresh mode, none in cached mode).
ObsRequestsOfInference(fresh) == IF fresh THEN 1 ELSE 0

\* UpdateLastObs keeping the old batch.
UpdateLastObs_Never(fresh, last, new) == last

\* if not self.use_fresh_obs: self._last_obs = new_obs
UpdateLastObs(fresh, last, new) == IF ~fresh THEN new ELSE last

\* ------------------------------------------------------------ rollout buffer
\* MyRolloutBuffer.reset(): the write cursor returns to row 0 and the arrays
\* are cleared.
BufferReset == [row \in Rows |-> ZeroRow]

\* MyRolloutBuffer.add(...): writes the row under the cursor, returns the index
\* of the row just written and advances the cursor.
BufferAdd(buf, pos, rew) == [buf EXCEPT ![pos] = rew]
BufferAddReturn(pos) == pos
BufferAdvance(pos) == pos + 1

\* ---------------------------------------------------------------- evaluation
\* EpisodeCountTarget without the slot offset.
EpisodeCountTarget_NoOffset(n, N, i) == n \div N

\* EpisodeCountTarget handing the remainder to the first slots.
EpisodeCountTarget_Reversed(n, N, i) == (n + (N - 1 - i)) \div N

\* episode_count_targets[i] = (n_eval_episodes + i) // n_envs
EpisodeCountTarget(n, N, i) == (n + i) \div N

EpisodeCountTargets(n, N) == [i \in 0 .. (N - 1) |-> EpisodeCountTarget(n, N, i)]

\* AmountOfEnvsFirstRun resetting every slot.
AmountOfEnvsFirstRun_AllEnvs(N, n) == N

\* amount_of_envs_first_run = min(n_envs, n_eval_episodes)
AmountOfEnvsFirstRun(N, n) == Min(N, n)

RECURSIVE SumArray(_, _)
SumArray(a, N) == IF N = 0 THEN 0 ELSE a[N - 1] + SumArray(a, N - 1)

\* ------------------------------------------------------------------- states
CollectIdle ==
    /\ error = "none"
    /\ iteration = 0
    /\ num_timesteps = 0
    /\ total_timesteps = 0
    /\ n_steps = 0
    /\ idx = 0
    /\ reward_correction_dict = [e \in Envs |-> EmptyDict]
    /\ buf_pos = 0
    /\ buf_rewards = BufferReset
    /\ insertpos = 0
    /\ raw_rewards = ZeroRow
    /\ rewards = ZeroRow
    /\ dones = AllFalse
    /\ infos_len = NumEnvs
    /\ bootstrapped = AllFalse
    /\ terminal_value = ZeroRow
    /\ info_step = ZeroRow
    /\ infos_rewards = [e \in Envs |-> <<>>]
    /\ info_amount = ZeroRow
    /\ len_before = ZeroRow
    /\ reconciled = [e \in Envs |-> EmptyDict]
    /\ corrections = [row \in Rows |-> ZeroRow]
    /\ advantage_calls = 0
    /\ train_calls = 0

ObsIdle ==
    /\ last_obs = StaleObs
    /\ new_obs = StaleObs
    /\ infer_obs = StaleObs
    /\ obs_requests = 0

\* The local variables of an evaluation procedure before it assigns them.
EvalLocalsUnset ==
    /\ episode_count_targets = <<>>
    /\ episode_counts = <<>>
    /\ map_and_rotations_counter = 0
    /\ rotation_step = NoFloat
    /\ map_and_rotations = <<>>
    /\ finished_episodes = 0
    /\ slot_pair = <<>>
    /\ handed = <<>>
    /\ pair_episodes = <<>>
    /\ stray_episodes = 0
    /\ eval_error = "none"

GenInputsUnset ==
    /\ rotation_range = <<0, 0>>
    /\ track_numbers = <<>>

EvalIdle ==
    /\ eval_fn = "none"
    /\ eval_pc = "idle"
    /\ n_envs = 1
    /\ n_eval_episodes = 0
    /\ GenInputsUnset
    /\ EvalLocalsUnset

BundleIdle ==
    /\ bundle_pc = "idle"
    /\ bundle_error = "none"
    /\ bundle_i = 0
    /\ frame_stacking = FALSE
    /\ return_all_obsstrings = FALSE
    /\ all_obsstrings = <<>>
    /\ all_observations = <<>>
    /\ obs_memory = <<>>
    /\ obs_buf = <<>>
    /\ rtn_obs = <<>>

\* No loop has put out an action or created an aggregator.
LoopUnset ==
    /\ actions = <<>>
    /\ clipped_actions = <<>>
    /\ episodes_results = NoEpisodesResults
    /\ done_flags = 0
    /\ rates_read = 0
    /\ premature_reads = 0
    /\ late_observes = 0

LoopIdle ==
    /\ action_space = [box |-> FALSE, low |-> 0, high |-> 2]
    /\ LoopUnset

\* A procedure that steps the environments has been entered.
LoopFresh ==
    /\ action_space \in ActionSpaces
    /\ LoopUnset

CycOwnIdle ==
    /\ cyc_pc = "idle"
    /\ cyc_error = "none"
    /\ cyc_iteration = 0
    /\ cyc_num_timesteps = 0
    /\ cyc_n_steps = 0
    /\ cyc_idx = 0
    /\ buffer_actions = <<>>
    /\ rollout_best_success_rate = <<0, 1>>
    /\ rollout_best_model_name = ""
    /\ model_files = {}
    /\ best_file_missing = FALSE

CycIdle ==
    /\ CycOwnIdle
    /\ LoopIdle

RunIdle ==
    /\ run_fn = "none"
    /\ run_pc = "idle"
    /\ run_error = "none"
    /\ run_n_envs = 1
    /\ run_n_episodes = 0
    /\ run_log = FALSE
    /\ run_counts = <<>>
    /\ run_targets = <<>>
    /\ run_finished = 0
    /\ video_filename = <<>>
    /\ episode_results = <<>>
    /\ success_count = 0
    /\ most_common_episode_result_rate = NoRate
    /\ run_counter = 0
    /\ done_unread = FALSE

ReplayIdle ==
    /\ rep_pc = "idle"
    /\ rep_error = "none"
    /\ episode_length_file = 0
    /\ recorded_episode_length = 0
    /\ recorded = <<>>
    /\ reproduced = <<>>
    /\ rep_i = 0
    /\ comparisons = 0

RecIdle ==
    /\ rec_pc = "idle"
    /\ rec_error = "none"
    /\ rec_n_episodes = 0
    /\ replay_n_episodes = 0
    /\ n_episodes_file = 0
    /\ rec_setting = 0
    /\ rec_idx = 0
    /\ rec_pairs = 0
    /\ rec_steps = 0
    /\ rec_lists = <<>>
    /\ dirs_created = {}
    /\ episode_steps = {}
    /\ files_saved = {}
    /\ lengths_saved = {}
    /\ dirs_visited = {}
    /\ files_loaded = {}
GaeIdle ==
    /\ gae_pc = "idle"
    /\ gae_gamma = 1
    /\ gae_lambda = 1
    /\ gae_rewards = <<>>
    /\ gae_values = <<>>
    /\ gae_episode_starts = <<>>
    /\ gae_dones = FALSE
    /\ gae_last_values = 0
    /\ gae_returns = <<>>

ResIdle ==
    /\ res_pc = "idle"
    /\ res_finalized = 0
    /\ rates_once = <<NoRate, NoRate>>

RowsIdle ==
    /\ row_pc = "idle"
    /\ row_error = "none"
    /\ row_iteration = 0
    /\ row_num_timesteps = 0
    /\ row_n_steps = 0
    /\ row_idx = 0
    /\ row_use_fresh_obs = FALSE
    /\ row_use_bundled_calls = FALSE
    /\ last_episode_starts = <<>>
    /\ row_last_obs = <<"none", 0>>
    /\ row_new_obs = <<"none", 0>>
    /\ row_dones = <<>>
    /\ row_dict = <<>>
    /\ obs_given = <<"none", 0>>
    /\ obs_returned = <<"none", 0>>
    /\ acquisitions = 0
    /\ acquired_envs = {}
    /\ buffer_observations = <<>>
    /\ buffer_inferred_from = <<>>
    /\ buffer_episode_starts = <<>>
    /\ buffer_steps = <<>>

LearnIdle ==
    /\ lrn_pc = "idle"
    /\ lrn_error = "none"
    /\ lrn_iteration = 0
    /\ lrn_num_timesteps = 0
    /\ lrn_total_timesteps = 0
    /\ lrn_num_envs = 0
    /\ lrn_n_rollout_steps = 0
    /\ lrn_n_steps = 0
    /\ log_interval = <<"None", 0>>
    /\ lrn_advantages = 0
    /\ lrn_trains = 0
    /\ lrn_evals = <<>>
    /\ lrn_cycles = 0

FreshTestIdle ==
    /\ ft_pc = "idle"
    /\ ft_error = "none"
    /\ ft_use_fresh_obs = FALSE
    /\ fresh_obs_status = FALSE
    /\ ft_before = FALSE
    /\ ft_args = <<>>
    /\ ft_calls = <<>>

RecordExtraIdle ==
    /\ use_bundled_calls = FALSE
    /\ rec_frame_stacking = 0
    /\ memory_updates = <<>>
    /\ recorded_updates = {}
    /\ replayed_updates = {}

YIdle ==
    /\ RowsIdle
    /\ LearnIdle
    /\ FreshTestIdle
    /\ RecordExtraIdle

XIdle ==
    /\ ResIdle
    /\ CycIdle
    /\ RunIdle
    /\ ReplayIdle
    /\ RecIdle
    /\ GaeIdle

\* Nothing of learn, of the evaluation procedures or of get_obs_bundled_calls
\* is running.
OldIdle ==
    /\ pc = "idle"
    /\ gamma = CHOOSE g \in GammaValues : TRUE
    /\ use_fresh_obs = FALSE
    /\ CollectIdle
    /\ ObsIdle
    /\ EvalIdle
    /\ BundleIdle

\* learn() has been entered: the state at the head of its while loop.
Init ==
    /\ pc = "learn"
    /\ gamma \in GammaValues
    /\ use_fresh_obs \in BOOLEAN
    /\ CollectIdle
    /\ ObsIdle
    /\ EvalIdle
    /\ BundleIdle
    /\ XIdle
    /\ YIdle

\* An uncaught exception leaves collect_rollouts and learn.
Abort(err) ==
    /\ pc' = "aborted"
    /\ error' = err

\* LoopCondition leaving the loop one iteration early.
LoopCondition_OneShort(n) == n + 1 < NRolloutSteps

\* while n_steps < n_rollout_steps
LoopCondition(n) == n < NRolloutSteps

\* The position after the loop condition is evaluated with n_steps = n.
AfterIteration(n) == IF LoopCondition(n) THEN "step" ELSE "flush"

\* The position after pass i of a for loop over the environments, the loop
\* being followed by position after.
NextPass(i, here, after) == IF i + 1 < NumEnvs THEN here ELSE after
NextIdx(i) == IF i + 1 < NumEnvs THEN i + 1 ELSE 0


\* ------------------------------------------------------- learn: while loop
\* while self.num_timesteps < total_timesteps: iteration += 1 and
\* collect_rollouts begins: n_steps = 0, rollout_buffer.reset(), fresh
\* EpisodesResults, one empty ledger per environment, env.reset().
StartCycle ==
    /\ pc = "learn"
    /\ num_timesteps < TotalTimesteps
    /\ iteration' = iteration + 1
    /\ n_steps' = 0
    /\ total_timesteps' = 0
    /\ buf_pos' = 0
    /\ buf_rewards' = BufferReset
    /\ corrections' = [row \in Rows |-> ZeroRow]
    /\ reward_correction_dict' = [e \in Envs |-> EmptyDict]
    /\ advantage_calls' = 0
    /\ idx' = 0
    /\ pc' = AfterIteration(0)
    /\ new_obs' = ResetObs
    /\ last_obs' = UpdateLastObs(use_fresh_obs, last_obs, ResetObs)
    /\ obs_requests' = 0
    /\ UNCHANGED <<error, gamma, num_timesteps, insertpos, train_calls,
                   use_fresh_obs, infer_obs>>
    /\ UNCHANGED itervars
    /\ UNCHANGED evars
    /\ UNCHANGED bvars
    /\ UNCHANGED xvars

\* The loop condition fails: callback.on_training_end(), return self.
LearnExit ==
    /\ pc = "learn"
    /\ num_timesteps >= TotalTimesteps
    /\ pc' = "finished"
    /\ UNCHANGED <<error, gamma, iteration, num_timesteps, total_timesteps, n_steps,
                   idx, reward_correction_dict, buf_pos, buf_rewards, insertpos,
                   corrections, advantage_calls, train_calls>>
    /\ UNCHANGED obsvars
    /\ UNCHANGED itervars
    /\ UNCHANGED evars
    /\ UNCHANGED bvars
    /\ UNCHANGED xvars

\* ------------------------------------------- collect_rollouts: loop iteration
\* Inference, step_wrapper, the timestep counters and the callback.
\* A callback verdict of False returns False from collect_rollouts.
StepEnvs ==
    /\ pc = "step"
    /\ LoopCondition(n_steps)
    /\ \E rw \in [Envs -> RawRewards], dn \in [Envs -> BOOLEAN],
          il \in InfoLens, continue \in BOOLEAN :
          /\ raw_rewards' = rw
          /\ rewards' = rw
          /\ dones' = dn
          /\ infos_len' = il
          /\ IF continue
             THEN /\ n_steps' = n_steps + 1
                  /\ pc' = "bootstrap"
             ELSE /\ n_steps' = n_steps
                  /\ pc' = "stopped"
    /\ num_timesteps' = num_timesteps + NumEnvs
    /\ total_timesteps' = total_timesteps + NumEnvs
    /\ idx' = 0
    /\ bootstrapped' = AllFalse
    /\ terminal_value' = ZeroRow
    /\ info_step' = ZeroRow
    /\ infos_rewards' = [e \in Envs |-> <<>>]
    /\ info_amount' = ZeroRow
    /\ reconciled' = [e \in Envs |-> EmptyDict]
    /\ len_before' = [e \in Envs |-> DictLen(reward_correction_dict[e])]
    /\ infer_obs' = InferenceObs(use_fresh_obs, last_obs)
    /\ obs_requests' = obs_requests + ObsRequestsOfInference(use_fresh_obs)
    /\ new_obs' = StepObs(n_steps)
    /\ UNCHANGED <<use_fresh_obs, last_obs>>
    /\ UNCHANGED <<error, gamma, iteration, reward_correction_dict, buf_pos,
                   buf_rewards, insertpos, corrections, advantage_calls,
                   train_calls>>
    /\ UNCHANGED evars
    /\ UNCHANGED bvars
    /\ UNCHANGED xvars

\* for idx, done in enumerate(dones): one pass of the time-limit bootstrap
\* loop.  infos[idx] is indexed only when done is set.
Bootstrap ==
    /\ pc = "bootstrap"
    /\ idx < NumEnvs
    /\ IF dones[idx] /\ idx >= infos_len
       THEN /\ Abort("IndexError:340")
            /\ UNCHANGED <<idx, rewards, bootstrapped, terminal_value>>
       ELSE /\ \E tobs \in BOOLEAN, trunc \in BOOLEAN, tv \in TerminalValues :
                  IF NeedsBootstrap(dones[idx], tobs, trunc)
                  THEN /\ rewards' = [rewards EXCEPT
                                         ![idx] = BootstrapReward(@, gamma, tv)]
                       /\ bootstrapped' = [bootstrapped EXCEPT ![idx] = TRUE]
                       /\ terminal_value' = [terminal_value EXCEPT ![idx] = tv]
                  ELSE UNCHANGED <<rewards, bootstrapped, terminal_value>>
            /\ idx' = idx + 1
            /\ UNCHANGED <<pc, error>>
    /\ UNCHANGED <<gamma, iteration, num_timesteps, total_timesteps, n_steps,
                   reward_correction_dict, buf_pos, buf_rewards, insertpos,
                   raw_rewards, dones, infos_len, info_step, infos_rewards,
                   info_amount, len_before, reconciled, corrections,
                   advantage_calls, train_calls>>
    /\ UNCHANGED obsvars
    /\ UNCHANGED evars
    /\ UNCHANGED bvars
    /\ UNCHANGED xvars

\* insertpos = rollout_buffer.add(...), then assert len(infos) == env.num_envs.
AddToBuffer ==
    /\ pc = "bootstrap"
    /\ idx = NumEnvs
    /\ insertpos' = BufferAddReturn(buf_pos)
    /\ buf_rewards' = BufferAdd(buf_rewards, buf_pos, rewards)
    /\ buf_pos' = BufferAdvance(buf_pos)
    /\ idx' = 0
    /\ IF infos_len # NumEnvs
       THEN Abort("AssertionError:365")
       ELSE /\ pc' = "register"
            /\ UNCHANGED error
    /\ UNCHANGED <<gamma, iteration, num_timesteps, total_timesteps, n_steps,
                   reward_correction_dict, corrections, advantage_calls,
                   train_calls>>
    /\ UNCHANGED obsvars
    /\ UNCHANGED itervars
    /\ UNCHANGED evars
    /\ UNCHANGED bvars
    /\ UNCHANGED xvars

\* for idx, info in enumerate(infos): one pass of the registration loop.
Register ==
    /\ pc = "register"
    /\ \E s \in StepIdxs :
          /\ info_step' = [info_step EXCEPT ![idx] = s]
          /\ IF RegisterError(reward_correction_dict[idx], s) # "none"
             THEN /\ Abort(RegisterError(reward_correction_dict[idx], s))
                  /\ UNCHANGED <<idx, reward_correction_dict>>
             ELSE /\ reward_correction_dict' =
                        [reward_correction_dict EXCEPT
                            ![idx] = RegisterEntry(@, s, insertpos)]
                  /\ idx' = NextIdx(idx)
                  /\ pc' = NextPass(idx, "register", "reconcile")
                  /\ UNCHANGED error
    /\ UNCHANGED <<gamma, iteration, num_timesteps, total_timesteps, n_steps,
                   buf_pos, buf_rewards, insertpos, raw_rewards, rewards, dones,
                   infos_len, bootstrapped, terminal_value, infos_rewards,
                   info_amount, len_before, reconciled, corrections,
                   advantage_calls, train_calls>>
    /\ UNCHANGED obsvars
    /\ UNCHANGED evars
    /\ UNCHANGED bvars
    /\ UNCHANGED xvars

\* for idx, done in enumerate(dones): one pass of the reconciliation loop.
\* After the last pass self._last_episode_starts and, in cached mode,
\* self._last_obs are updated and the while condition is evaluated again.
Reconcile ==
    /\ pc = "reconcile"
    /\ IF NeedsReconcile(dones[idx], n_steps)
       THEN \E auth \in AuthSeqs, amount \in Amounts :
               LET d == reward_correction_dict[idx]
                   err == ReconcileError(d, auth, amount)
               IN  /\ infos_rewards' = [infos_rewards EXCEPT ![idx] = auth]
                   /\ info_amount' = [info_amount EXCEPT ![idx] = amount]
                   /\ IF ReconcileWrites(d, auth)
                      THEN /\ buf_rewards' = ReconcileRewards(buf_rewards, d, idx, auth)
                           /\ corrections' = CountCorrections(corrections, d, idx)
                      ELSE UNCHANGED <<buf_rewards, corrections>>
                   /\ IF err # "none"
                      THEN /\ Abort(err)
                           /\ UNCHANGED <<idx, reward_correction_dict, reconciled>>
                      ELSE /\ reconciled' = [reconciled EXCEPT ![idx] = d]
                           /\ reward_correction_dict' =
                                 [reward_correction_dict EXCEPT ![idx] = EmptyDict]
                           /\ idx' = NextIdx(idx)
                           /\ pc' = NextPass(idx, "reconcile", AfterIteration(n_steps))
                           /\ UNCHANGED error
       ELSE /\ idx' = NextIdx(idx)
            /\ pc' = NextPass(idx, "reconcile", AfterIteration(n_steps))
            /\ UNCHANGED <<error, reward_correction_dict, buf_rewards,
                           infos_rewards, info_amount, reconciled, corrections>>
    /\ UNCHANGED <<gamma, iteration, num_timesteps, total_timesteps, n_steps,
                   buf_pos, insertpos, raw_rewards, rewards, dones, infos_len,
                   bootstrapped, terminal_value, info_step, len_before,
                   advantage_calls, train_calls>>
    /\ last_obs' = IF pc' \in {"step", "flush"}
                   THEN UpdateLastObs(use_fresh_obs, last_obs, new_obs)
                   ELSE last_obs
    /\ UNCHANGED <<use_fresh_obs, new_obs, infer_obs, obs_requests>>
    /\ UNCHANGED evars
    /\ UNCHANGED bvars
    /\ UNCHANGED xvars

\* The loop is left: last-value estimate, compute_returns_and_advantage,
\* computeRates, the rollout records; collect_rollouts returns True and its
\* local variables cease to exist.
Flush ==
    /\ pc = "flush"
    /\ advantage_calls' = advantage_calls + 1
    /\ pc' = "returned"
    /\ n_steps' = 0
    /\ total_timesteps' = 0
    /\ insertpos' = 0
    /\ raw_rewards' = ZeroRow
    /\ rewards' = ZeroRow
    /\ dones' = AllFalse
    /\ infos_len' = NumEnvs
    /\ bootstrapped' = AllFalse
    /\ terminal_value' = ZeroRow
    /\ info_step' = ZeroRow
    /\ infos_rewards' = [e \in Envs |-> <<>>]
    /\ info_amount' = ZeroRow
    /\ len_before' = ZeroRow
    /\ reconciled' = [e \in Envs |-> EmptyDict]
    /\ new_obs' = StaleObs
    /\ infer_obs' = StaleObs
    /\ obs_requests' = 0
    /\ UNCHANGED <<error, gamma, iteration, num_timesteps, idx,
                   reward_correction_dict, buf_pos, buf_rewards, corrections,
                   train_calls, use_fresh_obs, last_obs>>
    /\ UNCHANGED evars
    /\ UNCHANGED bvars
    /\ UNCHANGED xvars

\* learn: self.train() on the filled buffer, then the loop condition again.
Train ==
    /\ pc = "returned"
    /\ train_calls' = train_calls + 1
    /\ pc' = "learn"
    /\ UNCHANGED <<error, gamma, iteration, num_timesteps, total_timesteps, n_steps,
                   idx, reward_correction_dict, buf_pos, buf_rewards, insertpos,
                   corrections, advantage_calls>>
    /\ UNCHANGED obsvars
    /\ UNCHANGED itervars
    /\ UNCHANGED evars
    /\ UNCHANGED bvars
    /\ UNCHANGED xvars

\* collect_rollouts has returned the bare value False; learn unpacks the
\* result into continue_training, cr_time, which raises TypeError (a bool is
\* not iterable) before the test of continue_training is reached.
LearnUnpackStopped ==
    /\ pc = "stopped"
    /\ Abort("TypeError:558")
    /\ UNCHANGED <<gamma, iteration, num_timesteps, total_timesteps, n_steps,
                   idx, reward_correction_dict, buf_pos, buf_rewards, insertpos,
                   corrections, advantage_calls, train_calls>>
    /\ UNCHANGED obsvars
    /\ UNCHANGED itervars
    /\ UNCHANGED evars
    /\ UNCHANGED bvars
    /\ UNCHANGED xvars

Next ==
    \/ StartCycle
    \/ LearnExit
    \/ LearnUnpackStopped
    \/ StepEnvs
    \/ Bootstrap
    \/ AddToBuffer
    \/ Register
    \/ Reconcile
    \/ Flush
    \/ Train

Spec == Init /\ [][Next]_vars

\* ------------------------------------- generate_map_and_rotations (alone)
\* generate_map_and_rotations has been called for some orientation range,
\* some difficulty and some number of episodes.
InitGen ==
    /\ pc = "idle"
    /\ gamma = CHOOSE g \in GammaValues : TRUE
    /\ use_fresh_obs = FALSE
    /\ CollectIdle
    /\ ObsIdle
    /\ BundleIdle
    /\ XIdle
    /\ YIdle
    /\ eval_fn = "generate_map_and_rotations"
    /\ eval_pc = "start"
    /\ n_envs = 1
    /\ n_eval_episodes \in 0 .. MaxGenEpisodes
    /\ rotation_range \in RotationRanges
    /\ track_numbers \in TrackLists
    /\ EvalLocalsUnset

\* The body of generate_map_and_rotations.  step is assigned unless n is 1.
Generate ==
    /\ eval_fn = "generate_map_and_rotations"
    /\ eval_pc = "start"
    /\ rotation_step' =
          IF n_eval_episodes = 1 THEN rotation_step
          ELSE RotationStep(rotation_range[1], rotation_range[2], n_eval_episodes)
    /\ map_and_rotations' =
          GenerateMapAndRotations(rotation_range, track_numbers, n_eval_episodes)
    /\ eval_pc' = "generated"
    /\ UNCHANGED <<eval_fn, n_envs, n_eval_episodes, episode_count_targets,
                   episode_counts, map_and_rotations_counter, rotation_range,
                   track_numbers, lvars>>
    /\ UNCHANGED cvars
    /\ UNCHANGED obsvars
    /\ UNCHANGED bvars
    /\ UNCHANGED xvars

NextGen == Generate

SpecGen == InitGen /\ [][NextGen]_vars

\* --------------------------------------------------------------- evaluation
EvalFns == {"eval_model_track", "test_episodes_identical_start_conditions"}

\* The orientation range and the difficulty of an evaluation run.
EvalRotationRanges == {<<0 - 15, 15>>}
EvalTrackLists == {[k \in 1 .. MaxTracks |-> 6 + k]}

\* One of the evaluation procedures fns has been called, with at most maxEnvs
\* environments and at most maxEpisodes episodes.
EvalCalled(fns, maxEnvs, maxEpisodes) ==
    /\ pc = "idle"
    /\ gamma = CHOOSE g \in GammaValues : TRUE
    /\ use_fresh_obs = FALSE
    /\ CollectIdle
    /\ ObsIdle
    /\ BundleIdle
    /\ XIdle
    /\ YIdle
    /\ eval_fn \in fns
    /\ eval_pc = "start"
    /\ n_envs \in 1 .. maxEnvs
    /\ n_eval_episodes \in 0 .. maxEpisodes
    /\ rotation_range \in EvalRotationRanges
    /\ track_numbers \in EvalTrackLists
    /\ EvalLocalsUnset

InitEval == EvalCalled(EvalFns, MaxEvalEnvs, MaxEvalEpisodes)

\* eval_model_track generates the (map, rotation) pairs; both procedures set
\* episode_counts to zeros, episode_count_targets to [(n + i) // n_envs ...]
\* and the counters to 0.
EvalSetup ==
    /\ eval_fn \in EvalFns
    /\ eval_pc = "start"
    /\ IF eval_fn = "eval_model_track"
       THEN \E st \in {IF n_eval_episodes = 1 THEN rotation_step
                        ELSE RotationStep(rotation_range[1], rotation_range[2],
                                          n_eval_episodes)},
               mr \in {GenerateMapAndRotations(rotation_range, track_numbers,
                                               n_eval_episodes)} :
                /\ rotation_step' = st
                /\ map_and_rotations' = mr
       ELSE UNCHANGED <<rotation_step, map_and_rotations>>
    /\ episode_counts' = [i \in 0 .. (n_envs - 1) |-> 0]
    /\ episode_count_targets' = EpisodeCountTargets(n_eval_episodes, n_envs)
    /\ map_and_rotations_counter' = 0
    /\ finished_episodes' = 0
    /\ slot_pair' = [i \in 0 .. (n_envs - 1) |-> 0]
    /\ handed' = <<>>
    /\ pair_episodes' = [k \in DOMAIN map_and_rotations' |-> 0]
    /\ stray_episodes' = 0
    /\ eval_pc' = "first_run"
    /\ UNCHANGED <<eval_fn, n_envs, n_eval_episodes, rotation_range,
                   track_numbers, eval_error>>
    /\ UNCHANGED cvars
    /\ UNCHANGED obsvars
    /\ UNCHANGED bvars
    /\ UNCHANGED xvars

\* NextPair choosing the pair by the slot that is reset.
NextPair_BySlot(mr, counter, i) == mr[(i % Len(mr)) + 1]

\* map_and_rotations[map_and_rotations_counter]
NextPair(mr, counter, i) == mr[counter + 1]

\* eval_model_track resets the first min(n_envs, n_eval_episodes) slots, each
\* to the next (map, rotation) pair (an index past the end of the list
\* raises IndexError); the identical-start test resets every slot to one
\* fixed map and rotation and consumes no pair.
EvalFirstRun ==
    /\ eval_pc = "first_run"
    /\ IF eval_fn = "eval_model_track"
       THEN LET first == AmountOfEnvsFirstRun(n_envs, n_eval_episodes)
                resets == Min(first, Len(map_and_rotations))
            IN  /\ map_and_rotations_counter' = resets
                /\ slot_pair' = [i \in 0 .. (n_envs - 1) |->
                                    IF i < resets THEN i + 1 ELSE 0]
                /\ handed' = [k \in 1 .. resets |->
                                 NextPair(map_and_rotations, k - 1, k - 1)]
                /\ eval_error' = IF resets < first THEN "IndexError:870" ELSE "none"
                /\ eval_pc' = IF resets < first THEN "aborted" ELSE "loop"
       ELSE /\ eval_pc' = "loop"
            /\ UNCHANGED <<map_and_rotations_counter, slot_pair, handed, eval_error>>
    /\ UNCHANGED <<eval_fn, n_envs, n_eval_episodes, episode_count_targets,
                   episode_counts, gvars, finished_episodes, pair_episodes,
                   stray_episodes>>
    /\ UNCHANGED cvars
    /\ UNCHANGED obsvars
    /\ UNCHANGED bvars
    /\ UNCHANGED xvars

\* The slots whose done flag the loop reads: dones[i] is looked at only
\* under episode_counts[i] < episode_count_targets[i].
OwingSlots(counts, targets) == {i \in DOMAIN counts : counts[i] < targets[i]}

\* EvalLoopCondition with all() in the place of any().
EvalLoopCondition_All(counts, targets) ==
    OwingSlots(counts, targets) = DOMAIN counts

\* (episode_counts < episode_count_targets).any()
EvalLoopCondition(counts, targets) == OwingSlots(counts, targets) # {}

\* The part of the loop state that the pass over the slots works on.
LoopState ==
    [counts |-> episode_counts, counter |-> map_and_rotations_counter,
     finished |-> finished_episodes, slot_pair |-> slot_pair, handed |-> handed,
     pair_episodes |-> pair_episodes, stray |-> stray_episodes, err |-> "none"]

\* The episode of slot i has ended and is counted: the counters go up and the
\* episode is credited to the pair it was started from.
CountEpisode(st, i) ==
    LET p == st.slot_pair[i]
    IN  [st EXCEPT !.counts[i] = @ + 1,
                   !.finished = @ + 1,
                   !.pair_episodes = IF p > 0 THEN [@ EXCEPT ![p] = @ + 1] ELSE @,
                   !.stray = IF p = 0 THEN @ + 1 ELSE @,
                   !.slot_pair[i] = 0]

\* The reset of slot i to the next pair: an index past the end of the list
\* raises IndexError.
ResetToNextPair(st, i, mr) ==
    IF st.counter >= Len(mr)
    THEN [st EXCEPT !.err = "IndexError:934"]
    ELSE [st EXCEPT !.slot_pair[i] = st.counter + 1,
                    !.handed = Append(@, NextPair(mr, st.counter, i)),
                    !.counter = @ + 1]

\* One pass of for i in range(n_envs), done being the flag of slot i when
\* it is read.  eval_model_track resets the slot to the next pair when it
\* still owes episodes; the identical-start test resets it to its fixed
\* start, which is no generated pair.
ProcessSlot(st, i, done, fn, targets, mr) ==
    IF st.err # "none" \/ ~done \/ st.counts[i] >= targets[i] THEN st
    ELSE IF fn = "eval_model_track" /\ st.counts[i] + 1 < targets[i]
         THEN ResetToNextPair(CountEpisode(st, i), i, mr)
         ELSE CountEpisode(st, i)

RECURSIVE ProcessSlots(_, _, _, _, _, _)
ProcessSlots(st, i, dn, fn, targets, mr) ==
    IF i \notin DOMAIN targets THEN st
    ELSE ProcessSlots(ProcessSlot(st, i, i \in DOMAIN dn /\ dn[i], fn, targets, mr),
                      i + 1, dn, fn, targets, mr)

\* One iteration of the evaluation loop in which the step call reports the
\* done flags dn.
EvalStepWith(dn) ==
    /\ eval_pc = "loop"
    /\ EvalLoopCondition(episode_counts, episode_count_targets)
    /\ \E st \in {ProcessSlots(LoopState, 0, dn, eval_fn, episode_count_targets,
                                map_and_rotations)} :
           /\ episode_counts' = st.counts
           /\ map_and_rotations_counter' = st.counter
           /\ finished_episodes' = st.finished
           /\ slot_pair' = st.slot_pair
           /\ handed' = st.handed
           /\ pair_episodes' = st.pair_episodes
           /\ stray_episodes' = st.stray
           /\ eval_error' = st.err
           /\ eval_pc' = IF st.err # "none" THEN "aborted" ELSE "loop"
    /\ UNCHANGED <<eval_fn, n_envs, n_eval_episodes, episode_count_targets, gvars>>
    /\ UNCHANGED cvars
    /\ UNCHANGED obsvars
    /\ UNCHANGED bvars
    /\ UNCHANGED xvars

EvalStep ==
    \E dn \in [OwingSlots(episode_counts, episode_count_targets) -> BOOLEAN] :
        EvalStepWith(dn)

\* The assertions that follow the loop.
ExitError(fn, counts, N, finished, counter, n) ==
    IF fn = "eval_model_track"
    THEN IF SumArray(counts, N) # n THEN "AssertionError:943"
         ELSE IF finished # n THEN "AssertionError:944"
         ELSE IF counter # n THEN "AssertionError:945"
         ELSE "none"
    ELSE IF SumArray(counts, N) # n THEN "AssertionError:1173"
         ELSE IF finished # n THEN "AssertionError:1174"
         ELSE "none"

\* The loop condition fails: the loop is left and the assertions are checked.
EvalExit ==
    /\ eval_pc = "loop"
    /\ ~EvalLoopCondition(episode_counts, episode_count_targets)
    /\ eval_error' = ExitError(eval_fn, episode_counts, n_envs, finished_episodes,
                               map_and_rotations_counter, n_eval_episodes)
    /\ eval_pc' = IF eval_error' # "none" THEN "aborted" ELSE "loop_exited"
    /\ UNCHANGED <<eval_fn, n_envs, n_eval_episodes, episode_count_targets,
                   episode_counts, map_and_rotations_counter, gvars,
                   finished_episodes, slot_pair, handed, pair_episodes,
                   stray_episodes>>
    /\ UNCHANGED cvars
    /\ UNCHANGED obsvars
    /\ UNCHANGED bvars
    /\ UNCHANGED xvars

NextEval ==
    \/ EvalSetup
    \/ EvalFirstRun
    \/ EvalStep
    \/ EvalExit

SpecEval == InitEval /\ [][NextEval]_vars

\* Every episode that is running in a slot which still owes episodes ends:
\* a step call in which that slot reports done is eventually taken.
EvalStepDone(i) ==
    /\ eval_pc = "loop"
    /\ i \in OwingSlots(episode_counts, episode_count_targets)
    /\ \E dn \in [OwingSlots(episode_counts, episode_count_targets) -> BOOLEAN] :
           /\ dn[i]
           /\ EvalStepWith(dn)

\* eval_model_track has been called; once its loop is entered, the loop exit
\* is taken when the condition fails and every running episode ends.
InitEvalFair == EvalCalled({"eval_model_track"}, MaxFairEnvs, MaxFairEpisodes)

SpecEvalFair ==
    /\ InitEvalFair
    /\ [][NextEval]_vars
    /\ WF_vars(EvalExit)
    /\ \A i \in 0 .. (MaxFairEnvs - 1) : WF_vars(EvalStepDone(i))

\* ------------------------------------------------- get_obs_bundled_calls
\* Observations are told apart by the position of the string they were
\* decoded from and by what was done to them on the way.
ObsString(k) == <<"obsstring", k>>
StringToObservation(str) == <<"observation", str[2]>>
MemoryRollover(obs) == <<"stacked", obs[2]>>
TransposeObservations(batch) == <<"transposed", batch>>

\* BundledError accepting a response with too many entries.
BundledError_OnlyTooShort(len, N) ==
    IF len < N THEN "AssertionError:1589" ELSE "none"

\* assert len(all_obsstrings) == env.num_envs
BundledError(len, N) == IF len # N THEN "AssertionError:1589" ELSE "none"

\* get_obs_bundled_calls(env, return_all_obsstrings) has been called on a
\* vectorized environment of n_envs slots.
InitBundled ==
    /\ pc = "idle"
    /\ gamma = CHOOSE g \in GammaValues : TRUE
    /\ use_fresh_obs = TRUE
    /\ CollectIdle
    /\ ObsIdle
    /\ eval_fn = "none"
    /\ eval_pc = "idle"
    /\ n_envs \in 1 .. MaxEvalEnvs
    /\ n_eval_episodes = 0
    /\ GenInputsUnset
    /\ EvalLocalsUnset
    /\ bundle_pc = "start"
    /\ bundle_error = "none"
    /\ bundle_i = 0
    /\ frame_stacking \in BOOLEAN
    /\ return_all_obsstrings \in BOOLEAN
    /\ all_obsstrings = <<>>
    /\ all_observations = <<>>
    /\ obs_memory = [i \in 0 .. (n_envs - 1) |-> 0]
    /\ obs_buf = [i \in 0 .. (n_envs - 1) |-> <<>>]
    /\ rtn_obs = <<>>
    /\ XIdle
    /\ YIdle

BundledAbort(err) ==
    /\ bundle_pc' = "aborted"
    /\ bundle_error' = err

\* The single request to the simulator and the assertion on its length.
BundledRequest ==
    /\ bundle_pc = "start"
    /\ \E len \in 0 .. (n_envs + 1) :
          /\ all_obsstrings' = [k \in 1 .. len |-> ObsString(k - 1)]
          /\ IF BundledError(len, n_envs) # "none"
             THEN BundledAbort(BundledError(len, n_envs))
             ELSE /\ bundle_pc' = IF len > 0 THEN "convert" ELSE "save"
                  /\ UNCHANGED bundle_error
    /\ UNCHANGED <<bundle_i, frame_stacking, return_all_obsstrings,
                   all_observations, obs_memory, obs_buf, rtn_obs>>
    /\ UNCHANGED <<cvars, obsvars, evars>>
    /\ UNCHANGED xvars

\* for i in range(len(all_obsstrings)): decode string i with environment i,
\* roll that environment's memory over when it stacks frames, append.
BundledConvert ==
    /\ bundle_pc = "convert"
    /\ IF bundle_i >= n_envs
       THEN /\ BundledAbort("IndexError:1593")
            /\ UNCHANGED <<bundle_i, all_observations, obs_memory>>
       ELSE LET obs == StringToObservation(all_obsstrings[bundle_i + 1])
                more == bundle_i + 1 < Len(all_obsstrings)
            IN  /\ all_observations' =
                      Append(all_observations,
                             IF frame_stacking THEN MemoryRollover(obs) ELSE obs)
                /\ obs_memory' = IF frame_stacking
                                 THEN [obs_memory EXCEPT ![bundle_i] = @ + 1]
                                 ELSE obs_memory
                /\ bundle_i' = IF more THEN bundle_i + 1 ELSE 0
                /\ bundle_pc' = IF more THEN "convert" ELSE "save"
                /\ UNCHANGED bundle_error
    /\ UNCHANGED <<frame_stacking, return_all_obsstrings, all_obsstrings,
                   obs_buf, rtn_obs>>
    /\ UNCHANGED <<cvars, obsvars, evars>>
    /\ UNCHANGED xvars

\* for idx in range(env.num_envs): env._save_obs(idx, all_observations[idx])
BundledSave ==
    /\ bundle_pc = "save"
    /\ IF bundle_i >= Len(all_observations)
       THEN /\ BundledAbort("IndexError:1602")
            /\ UNCHANGED <<bundle_i, obs_buf>>
       ELSE LET more == bundle_i + 1 < n_envs
            IN  /\ obs_buf' = [obs_buf EXCEPT ![bundle_i] = all_observations[bundle_i + 1]]
                /\ bundle_i' = IF more THEN bundle_i + 1 ELSE 0
                /\ bundle_pc' = IF more THEN "save" ELSE "return"
                /\ UNCHANGED bundle_error
    /\ UNCHANGED <<frame_stacking, return_all_obsstrings, all_obsstrings,
                   all_observations, obs_memory, rtn_obs>>
    /\ UNCHANGED <<cvars, obsvars, evars>>
    /\ UNCHANGED xvars

\* obs = env._obs_from_buf(); return env.transpose_observations(obs), with
\* the strings when return_all_obsstrings is set.
BundledReturn ==
    /\ bundle_pc = "return"
    /\ rtn_obs' = IF return_all_obsstrings
                  THEN <<TransposeObservations(obs_buf), all_obsstrings>>
                  ELSE TransposeObservations(obs_buf)
    /\ bundle_pc' = "returned"
    /\ UNCHANGED <<bundle_error, bundle_i, frame_stacking, return_all_obsstrings,
                   all_obsstrings, all_observations, obs_memory, obs_buf>>
    /\ UNCHANGED <<cvars, obsvars, evars>>
    /\ UNCHANGED xvars

NextBundled ==
    \/ BundledRequest
    \/ BundledConvert
    \/ BundledSave
    \/ BundledReturn

SpecBundled == InitBundled /\ [][NextBundled]_vars

\* ----------------------------------- collect_rollouts, iteration by iteration
\* The learn loop and collect_rollouts once more, one action per loop
\* iteration: the actions, the outcome aggregator and the best-model
\* checkpoint.  The ledger of one iteration is the subject of the actions
\* Bootstrap .. Reconcile above; here its assertions are an input that says
\* whether the iteration passes them.
EpisodesResultsNew ==
    [completed_episodes |-> 0, success_count |-> 0, timeout_count |-> 0,
     computed |-> 0, success_rate |-> NoRate, timeout_rate |-> NoRate]

\* processInfoDictEpisodeFinished(info): one more episode, classified by its
\* end event.
ProcessInfoDictEpisodeFinished(er, endEvent) ==
    [er EXCEPT !.completed_episodes = @ + 1,
               !.success_count = IF endEvent = "Success" THEN @ + 1 ELSE @,
               !.timeout_count = IF endEvent = "OutOfTime" THEN @ + 1 ELSE @]

RECURSIVE Gcd(_, _)
Gcd(a, b) == IF b = 0 THEN a ELSE Gcd(b, a % b)

\* The quotient count / total as a fraction in lowest terms: equal quotients
\* are equal numbers.
Quotient(count, total) ==
    <<count \div Gcd(count, total), total \div Gcd(count, total)>>

\* A rate is its count divided by the number of episodes, 0 without episodes.
RateOf(er, count) ==
    IF er.completed_episodes = 0 THEN <<0, 1>>
    ELSE Quotient(count, er.completed_episodes)

\* ComputeRates dividing the counts in place: they do not survive the call.
ComputeRates_InPlace(er) ==
    [er EXCEPT !.computed = @ + 1,
               !.success_rate = RateOf(er, er.success_count),
               !.timeout_rate = RateOf(er, er.timeout_count),
               !.success_count = 0,
               !.timeout_count = 0]

\* computeRates(): counts to rates.
ComputeRates(er) ==
    [er EXCEPT !.computed = @ + 1,
               !.success_rate = RateOf(er, er.success_count),
               !.timeout_rate = RateOf(er, er.timeout_count)]

\* a >= b for two rates.
RateGE(a, b) == a[1] * b[2] >= b[1] * a[2]

\* np.clip keeping the upper bound only.
Clip_UpperOnly(x, low, high) == IF x > high THEN high ELSE x

\* np.clip(x, low, high) for one component.
Clip(x, low, high) == IF x < low THEN low ELSE IF x > high THEN high ELSE x

\* clipped_actions = actions, clipped to the bounds for a Box action space.
ClippedActions(space, acts) ==
    IF space.box THEN [k \in DOMAIN acts |-> Clip(acts[k], space.low, space.high)]
    ELSE acts

\* int(success_rate * 100)
RatePercent(rate) ==
    FloatToInt([neg |-> FALSE] @@ FloatMul(100, [neg |-> FALSE] @@ FloatDiv(rate[1], rate[2])))

\* f'rollout_model_{int(success_rate*100)}-sr_{self.num_timesteps}-steps'
RolloutModelName(rate, timesteps) == <<"rollout_model", RatePercent(rate), timesteps>>

\* An exception leaves collect_rollouts and learn.
CycAbort(err) ==
    /\ cyc_pc' = "aborted"
    /\ cyc_error' = err

\* learn has been called: rollout_best_success_rate = 0,
\* rollout_best_model_name = "".
InitCycle ==
    /\ OldIdle
    /\ YIdle
    /\ ResIdle
    /\ RunIdle
    /\ ReplayIdle
    /\ RecIdle
    /\ GaeIdle
    /\ LoopFresh
    /\ cyc_pc = "learn"
    /\ cyc_error = "none"
    /\ cyc_iteration = 0
    /\ cyc_num_timesteps = 0
    /\ cyc_n_steps = 0
    /\ cyc_idx = 0
    /\ buffer_actions = <<>>
    /\ rollout_best_success_rate = <<0, 1>>
    /\ rollout_best_model_name = ""
    /\ model_files = {}
    /\ best_file_missing = FALSE

\* CycleAggregator keeping the aggregator of the cycle before.
CycleAggregator_Kept(er) == er

\* episodes_results = EpisodesResults()
CycleAggregator(er) == EpisodesResultsNew

\* while self.num_timesteps < total_timesteps: collect_rollouts is entered,
\* rollout_buffer.reset(), a new EpisodesResults, env.reset().
CycStart ==
    /\ cyc_pc = "learn"
    /\ cyc_num_timesteps < CycTotalTimesteps
    /\ cyc_iteration' = cyc_iteration + 1
    /\ cyc_n_steps' = 0
    /\ buffer_actions' = <<>>
    /\ episodes_results' = CycleAggregator(episodes_results)
    /\ done_flags' = 0
    /\ rates_read' = 0
    /\ premature_reads' = 0
    /\ late_observes' = 0
    /\ best_file_missing' = FALSE
    /\ actions' = <<>>
    /\ clipped_actions' = <<>>
    /\ cyc_pc' = "loop"
    /\ UNCHANGED <<cyc_idx, cyc_error, cyc_num_timesteps, action_space,
                   rollout_best_success_rate, rollout_best_model_name,
                   model_files>>
    /\ UNCHANGED notk

\* rollout_buffer.add(obs, actions, ...)
BufferedActions(acts, clipped) == acts

\* The head of one iteration of while n_steps < n_rollout_steps: inference,
\* clipping, step_wrapper, the time steps and the callback.
CycInfer ==
    /\ cyc_pc = "loop"
    /\ cyc_n_steps < CycRolloutSteps
    /\ \E acts \in ActionBatches(action_space), continue \in BOOLEAN :
          /\ actions' = acts
          /\ clipped_actions' = ClippedActions(action_space, acts)
          /\ cyc_pc' = IF continue THEN "observe" ELSE "stopped"
          /\ cyc_n_steps' = IF continue THEN cyc_n_steps + 1 ELSE cyc_n_steps
    /\ cyc_num_timesteps' = cyc_num_timesteps + CycNumEnvs
    /\ cyc_idx' = 0
    /\ UNCHANGED <<cyc_error, cyc_iteration, action_space, buffer_actions,
                   episodes_results, done_flags, rates_read, premature_reads,
                   late_observes, rollout_best_success_rate,
                   rollout_best_model_name, model_files, best_file_missing>>
    /\ UNCHANGED notk

\* for idx, done in enumerate(dones): the aggregator observes the terminal
\* info of a done environment.
CycObserve ==
    /\ cyc_pc = "observe"
    /\ cyc_idx < CycNumEnvs
    /\ \E outcome \in StepOutcomes :
          IF outcome # "running"
          THEN /\ episodes_results' =
                     ProcessInfoDictEpisodeFinished(episodes_results, outcome)
               /\ done_flags' = done_flags + 1
               /\ late_observes' = late_observes +
                      (IF episodes_results.computed > 0 THEN 1 ELSE 0)
          ELSE UNCHANGED <<episodes_results, done_flags, late_observes>>
    /\ cyc_idx' = cyc_idx + 1
    /\ UNCHANGED <<cyc_pc, cyc_error, cyc_iteration, cyc_num_timesteps,
                   cyc_n_steps, action_space, actions, clipped_actions,
                   buffer_actions, rates_read, premature_reads,
                   rollout_best_success_rate, rollout_best_model_name,
                   model_files, best_file_missing>>
    /\ UNCHANGED notk

\* The rest of the iteration: rollout_buffer.add and the ledger with its
\* assertions.
CycAdd ==
    /\ cyc_pc = "observe"
    /\ cyc_idx >= CycNumEnvs
    /\ buffer_actions' = BufferedActions(actions, clipped_actions)
    /\ \E ledger_ok \in BOOLEAN :
          IF ledger_ok
          THEN /\ cyc_pc' = IF cyc_n_steps < CycRolloutSteps THEN "loop" ELSE "flush"
               /\ UNCHANGED cyc_error
          ELSE CycAbort("AssertionError:365-396")
    /\ UNCHANGED <<cyc_iteration, cyc_num_timesteps, cyc_n_steps, cyc_idx,
                   action_space, actions, clipped_actions, episodes_results,
                   done_flags, rates_read, premature_reads, late_observes,
                   rollout_best_success_rate, rollout_best_model_name,
                   model_files, best_file_missing>>
    /\ UNCHANGED notk

\* The loop is left: the last value estimate, compute_returns_and_advantage,
\* callback.on_rollout_end() and episodes_results.computeRates().
CycFlush ==
    /\ cyc_pc = "flush"
    /\ episodes_results' = ComputeRates(episodes_results)
    /\ cyc_pc' = "record"
    /\ UNCHANGED <<cyc_idx, cyc_error, cyc_iteration, cyc_num_timesteps, cyc_n_steps,
                   action_space, actions, clipped_actions, buffer_actions,
                   done_flags, rates_read, premature_reads, late_observes,
                   rollout_best_success_rate, rollout_best_model_name,
                   model_files, best_file_missing>>
    /\ UNCHANGED notk

\* CheckpointsAfterSave leaving the previous checkpoint on disk.
CheckpointsAfterSave_NoRemove(files, previous, new) == files \cup {new}

\* os.remove(f'{self.rollout_best_model_name}.zip') when the name is not "",
\* then self.save(new name): the checkpoints on disk afterwards.
CheckpointsAfterSave(files, previous, new) ==
    (IF previous # "" THEN files \ {previous} ELSE files) \cup {new}

\* The rates are recorded; a success rate that reaches the best one removes
\* the checkpoint saved for the previous best (the file may be gone: the
\* file system is shared) and saves a new one; return True, cr_time.
CycRecord ==
    /\ cyc_pc = "record"
    /\ rates_read' = rates_read + 1
    /\ premature_reads' = premature_reads + (IF episodes_results.computed = 0 THEN 1 ELSE 0)
    /\ IF RateGE(episodes_results.success_rate, rollout_best_success_rate)
       THEN /\ rollout_best_success_rate' = episodes_results.success_rate
            /\ \E present \in BOOLEAN :
                  IF rollout_best_model_name # "" /\ ~present
                  THEN /\ CycAbort("FileNotFoundError:461")
                       /\ best_file_missing' = TRUE
                       /\ model_files' = model_files \ {rollout_best_model_name}
                       /\ UNCHANGED rollout_best_model_name
                  ELSE /\ rollout_best_model_name' =
                             RolloutModelName(episodes_results.success_rate,
                                              cyc_num_timesteps)
                       /\ model_files' = CheckpointsAfterSave(model_files,
                                              rollout_best_model_name,
                                              rollout_best_model_name')
                       /\ cyc_pc' = "returned"
                       /\ UNCHANGED <<cyc_error, best_file_missing>>
       ELSE /\ cyc_pc' = "returned"
            /\ UNCHANGED <<cyc_error, rollout_best_success_rate,
                           rollout_best_model_name, model_files, best_file_missing>>
    /\ UNCHANGED <<cyc_iteration, cyc_num_timesteps, cyc_n_steps, cyc_idx, action_space,
                   actions, clipped_actions, buffer_actions, episodes_results,
                   done_flags, late_observes>>
    /\ UNCHANGED notk

\* learn: self.train(), then the loop condition again.
CycTrain ==
    /\ cyc_pc = "returned"
    /\ cyc_pc' = "learn"
    /\ UNCHANGED <<cyc_idx, cyc_error, cyc_iteration, cyc_num_timesteps, cyc_n_steps,
                   action_space, actions, clipped_actions, buffer_actions,
                   episodes_results, done_flags, rates_read, premature_reads,
                   late_observes, rollout_best_success_rate,
                   rollout_best_model_name, model_files, best_file_missing>>
    /\ UNCHANGED notk

\* The loop condition of learn fails: callback.on_training_end().
CycLearnExit ==
    /\ cyc_pc = "learn"
    /\ cyc_num_timesteps >= CycTotalTimesteps
    /\ cyc_pc' = "finished"
    /\ UNCHANGED <<cyc_idx, cyc_error, cyc_iteration, cyc_num_timesteps, cyc_n_steps,
                   action_space, actions, clipped_actions, buffer_actions,
                   episodes_results, done_flags, rates_read, premature_reads,
                   late_observes, rollout_best_success_rate,
                   rollout_best_model_name, model_files, best_file_missing>>
    /\ UNCHANGED notk

\* collect_rollouts returned the bare value False: the unpacking in learn
\* raises TypeError.
CycUnpackStopped ==
    /\ cyc_pc = "stopped"
    /\ CycAbort("TypeError:558")
    /\ UNCHANGED <<cyc_idx, cyc_iteration, cyc_num_timesteps, cyc_n_steps,
                   action_space, actions, clipped_actions, buffer_actions,
                   episodes_results, done_flags, rates_read, premature_reads,
                   late_observes, rollout_best_success_rate,
                   rollout_best_model_name, model_files, best_file_missing>>
    /\ UNCHANGED notk

NextCycle ==
    \/ CycStart
    \/ CycInfer
    \/ CycObserve
    \/ CycAdd
    \/ CycFlush
    \/ CycRecord
    \/ CycTrain
    \/ CycLearnExit
    \/ CycUnpackStopped

SpecCycle == InitCycle /\ [][NextCycle]_vars

\* ------------------------------------------ evaluation runs, step by step
\* eval_model_track and test_episodes_identical_start_conditions once more,
\* with what the sections above leave out: the video targets of the logging
\* slots, the actions, the outcome aggregator and the episode signatures.
\* The (map, rotation) pairs handed to the resets are the subject of the
\* actions EvalSetup .. EvalExit above and are left out here.
LogIndices == {0, 1}

\* f'...\\{difficulty}_{light_setting.name}_env_{i}_video_'
VideoFilename(i) == IF i = 0 THEN "env_0_video_" ELSE "env_1_video_"

\* What the step call reports for one slot: the episode runs on, or it has
\* ended with a terminal info.
Running == [endEvent |-> "running", collision |-> FALSE]
Infos == {[endEvent |-> "Success", collision |-> FALSE],
          [endEvent |-> "OutOfTime", collision |-> FALSE],
          [endEvent |-> "OutOfTime", collision |-> TRUE]}

\* EpisodeRepresentation(info): the signature of a finished episode.
EpisodeRepresentation(info) == <<info.endEvent, info.collision>>

\* episode_results.count(sig)
SignatureCount(sigs, sig) == Cardinality({k \in DOMAIN sigs : sigs[k] = sig})

\* MostCommonCount taking the signature of the first episode.
MostCommonCount_First(sigs) == SignatureCount(sigs, sigs[1])

\* episode_results_counter[max(set(episode_results), key=episode_results.count)]
MostCommonCount(sigs) ==
    Max({SignatureCount(sigs, sigs[k]) : k \in DOMAIN sigs})

\* setVideoFilename(video_filename = "") on the slots of indices, in order.
ClearVideos_FirstOnly(videos, indices) ==
    [i \in DOMAIN videos |-> IF i = 0 /\ i \in indices THEN "" ELSE videos[i]]

ClearVideos(videos, indices) ==
    [i \in DOMAIN videos |-> IF i \in indices THEN "" ELSE videos[i]]

RunAbort(err) ==
    /\ run_pc' = "aborted"
    /\ run_error' = err

\* One of the two procedures has been called on 1 .. RunMaxEnvs environments
\* for 0 .. RunMaxEpisodes episodes.
InitRun ==
    /\ OldIdle
    /\ YIdle
    /\ ResIdle
    /\ CycOwnIdle
    /\ ReplayIdle
    /\ RecIdle
    /\ GaeIdle
    /\ LoopFresh
    /\ run_fn \in EvalFns
    /\ run_pc = "start"
    /\ run_error = "none"
    /\ run_n_envs \in 1 .. RunMaxEnvs
    /\ run_n_episodes \in 0 .. RunMaxEpisodes
    /\ run_log \in BOOLEAN
    /\ run_counts = <<>>
    /\ run_targets = <<>>
    /\ run_finished = 0
    /\ video_filename = [i \in 0 .. (run_n_envs - 1) |-> ""]
    /\ episode_results = <<>>
    /\ success_count = 0
    /\ most_common_episode_result_rate = NoRate
    /\ run_counter = 0
    /\ done_unread = FALSE

\* The head of the procedure: the aggregator (eval_model_track), the counts
\* and targets, and the video target of each logging slot; env_method on a
\* slot the pool does not have raises IndexError.
RunSetup ==
    /\ run_pc = "start"
    /\ run_counts' = [i \in 0 .. (run_n_envs - 1) |-> 0]
    /\ run_targets' = EpisodeCountTargets(run_n_episodes, run_n_envs)
    /\ IF run_fn = "eval_model_track"
       THEN /\ episodes_results' = EpisodesResultsNew
            /\ done_flags' = 0
            /\ rates_read' = 0
            /\ premature_reads' = 0
            /\ late_observes' = 0
       ELSE UNCHANGED <<episodes_results, done_flags, rates_read,
                        premature_reads, late_observes>>
    /\ video_filename' = [i \in DOMAIN video_filename |->
                             IF i \in LogIndices THEN VideoFilename(i)
                             ELSE video_filename[i]]
    /\ IF LogIndices \subseteq DOMAIN video_filename
       THEN /\ run_pc' = "loop"
            /\ run_counter' = IF run_fn = "eval_model_track"
                              THEN AmountOfEnvsFirstRun(run_n_envs, run_n_episodes)
                              ELSE 0
            /\ UNCHANGED run_error
       ELSE /\ RunAbort(IF run_fn = "eval_model_track" THEN "IndexError:857"
                        ELSE "IndexError:1089")
            /\ UNCHANGED run_counter
    /\ UNCHANGED done_unread
    /\ UNCHANGED <<run_fn, run_n_envs, run_n_episodes, run_log, run_finished,
                   episode_results, success_count, most_common_episode_result_rate,
                   action_space, actions, clipped_actions>>
    /\ UNCHANGED notq

\* The part of the state that the pass over the slots works on.
RunLoopState ==
    [counts |-> run_counts, finished |-> run_finished, er |-> episodes_results,
     flags |-> done_flags, late |-> late_observes, sigs |-> episode_results,
     success |-> success_count, videos |-> video_filename,
     counter |-> run_counter, unread |-> FALSE]

\* RunSlot without the test of the count against the target.
RunSlot_Unguarded(st, i, o, fn, targets) ==
    IF o = Running THEN st
    ELSE LET counted == [st EXCEPT !.counts[i] = @ + 1,
                                   !.finished = @ + 1,
                                   !.flags = @ + 1]
             seen == IF fn = "eval_model_track"
                     THEN [counted EXCEPT
                              !.er = ProcessInfoDictEpisodeFinished(@, o.endEvent),
                              !.late = IF st.er.computed > 0 THEN @ + 1 ELSE @]
                     ELSE [counted EXCEPT
                              !.success = IF o.endEvent = "Success" THEN @ + 1 ELSE @,
                              !.sigs = Append(@, EpisodeRepresentation(o))]
             cleared == IF i \in LogIndices /\ seen.counts[i] = targets[i] - 1
                        THEN [seen EXCEPT !.videos[i] = ""]
                        ELSE seen
         IN  IF fn = "eval_model_track" /\ cleared.counts[i] < targets[i]
             THEN [cleared EXCEPT !.counter = @ + 1]
             ELSE cleared

\* The body of for i in range(n_envs) for slot i, whose step outcome is o:
\* nothing when the slot owes no episode or its episode runs on; else the
\* episode is counted and handed to the aggregator (or its signature
\* appended), the video target cleared before the last episode of a logging
\* slot, and in eval_model_track the slot reset to the next pair when it
\* still owes episodes.
RunSlot(st, i, o, fn, targets) ==
    IF st.counts[i] >= targets[i]
    THEN [st EXCEPT !.unread = @ \/ o # Running]
    ELSE IF o = Running THEN st
    ELSE LET counted == [st EXCEPT !.counts[i] = @ + 1,
                                   !.finished = @ + 1,
                                   !.flags = @ + 1]
             seen == IF fn = "eval_model_track"
                     THEN [counted EXCEPT
                              !.er = ProcessInfoDictEpisodeFinished(@, o.endEvent),
                              !.late = IF st.er.computed > 0 THEN @ + 1 ELSE @]
                     ELSE [counted EXCEPT
                              !.success = IF o.endEvent = "Success" THEN @ + 1 ELSE @,
                              !.sigs = Append(@, EpisodeRepresentation(o))]
             cleared == IF i \in LogIndices /\ seen.counts[i] = targets[i] - 1
                        THEN [seen EXCEPT !.videos[i] = ""]
                        ELSE seen
         IN  IF fn = "eval_model_track" /\ cleared.counts[i] < targets[i]
             THEN [cleared EXCEPT !.counter = @ + 1]
             ELSE cleared

RECURSIVE RunSlots(_, _, _, _, _)
RunSlots(st, i, outcomes, fn, targets) ==
    IF i \notin DOMAIN targets THEN st
    ELSE RunSlots(RunSlot(st, i, outcomes[i], fn, targets), i + 1, outcomes,
                  fn, targets)

\* One iteration of the while loop: inference, clipping, step_wrapper and
\* the pass over the slots.  Every slot is stepped and may report the end of
\* an episode, whether it owes episodes or not.
RunStep ==
    /\ run_pc = "loop"
    /\ EvalLoopCondition(run_counts, run_targets)
    /\ \E acts \in ActionBatches(action_space),
          outcomes \in [DOMAIN run_targets -> {Running} \cup Infos] :
          /\ actions' = acts
          /\ clipped_actions' = ClippedActions(action_space, acts)
          /\ \E st \in {RunSlots(RunLoopState, 0, outcomes, run_fn, run_targets)} :
                 /\ run_counts' = st.counts
                 /\ run_finished' = st.finished
                 /\ episodes_results' = st.er
                 /\ done_flags' = st.flags
                 /\ late_observes' = st.late
                 /\ episode_results' = st.sigs
                 /\ success_count' = st.success
                 /\ video_filename' = st.videos
                 /\ run_counter' = st.counter
                 /\ done_unread' = st.unread
    /\ UNCHANGED <<run_fn, run_pc, run_error, run_n_envs, run_n_episodes, run_log,
                   run_targets, most_common_episode_result_rate, action_space,
                   rates_read, premature_reads>>
    /\ UNCHANGED notq

\* The statements between the loop and the first read of a rate.
RunFinalizeError(fn, counts, N, finished, n, sigs) ==
    IF fn = "eval_model_track"
    THEN IF SumArray(counts, N) # n THEN "AssertionError:943"
         ELSE IF finished # n THEN "AssertionError:944"
         ELSE "none"
    ELSE IF SumArray(counts, N) # n THEN "AssertionError:1173"
         ELSE IF finished # n THEN "AssertionError:1174"
         ELSE IF n = 0 THEN "ZeroDivisionError:1176"
         ELSE IF sigs = <<>> THEN "ValueError:1181"
         ELSE "none"

\* The loop condition fails: the assertions, then computeRates()
\* (eval_model_track) or the rate of the most common signature.
RunFinalize ==
    /\ run_pc = "loop"
    /\ ~EvalLoopCondition(run_counts, run_targets)
    /\ \E err \in {RunFinalizeError(run_fn, run_counts, run_n_envs, run_finished,
                                    run_n_episodes, episode_results)} :
          IF err # "none"
          THEN /\ RunAbort(err)
               /\ UNCHANGED <<episodes_results, most_common_episode_result_rate>>
          ELSE /\ run_pc' = "record"
               /\ UNCHANGED run_error
               /\ IF run_fn = "eval_model_track"
                  THEN /\ episodes_results' = ComputeRates(episodes_results)
                       /\ UNCHANGED most_common_episode_result_rate
                  ELSE /\ most_common_episode_result_rate' =
                              <<MostCommonCount(episode_results), run_n_episodes>>
                       /\ UNCHANGED episodes_results
    /\ UNCHANGED <<run_fn, run_n_envs, run_n_episodes, run_log, run_counts,
                   run_targets, run_finished, video_filename, episode_results,
                   success_count, action_space, actions, clipped_actions,
                   done_flags, rates_read, premature_reads, late_observes>>
    /\ UNCHANGED <<run_counter, done_unread>>
    /\ UNCHANGED notq

\* Rates read by the rest of the procedure: the records under log and the
\* return statement of eval_model_track; the identical-start test reads none
\* of the aggregator.
RunRateReads(fn, log) ==
    IF fn = "eval_model_track" THEN (IF log THEN 2 ELSE 1) ELSE 0

\* The rest: the records (eval_model_track divides by n_eval_episodes
\* there), the video targets of the logging slots set to "", the return.
RunReturn ==
    /\ run_pc = "record"
    /\ IF run_fn = "eval_model_track" /\ run_log /\ run_n_episodes = 0
       THEN /\ RunAbort("ZeroDivisionError:959")
            /\ rates_read' = rates_read + 1
            /\ premature_reads' = premature_reads +
                   (IF episodes_results.computed = 0 THEN 1 ELSE 0)
            /\ UNCHANGED video_filename
       ELSE /\ run_pc' = "returned"
            /\ rates_read' = rates_read + RunRateReads(run_fn, run_log)
            /\ premature_reads' = premature_reads +
                   (IF episodes_results.computed = 0
                    THEN RunRateReads(run_fn, run_log) ELSE 0)
            /\ video_filename' = ClearVideos(video_filename, LogIndices)
            /\ UNCHANGED run_error
    /\ UNCHANGED <<run_fn, run_n_envs, run_n_episodes, run_log, run_counts,
                   run_targets, run_finished, episode_results, success_count,
                   most_common_episode_result_rate, action_space, actions,
                   clipped_actions, episodes_results, done_flags, late_observes>>
    /\ UNCHANGED <<run_counter, done_unread>>
    /\ UNCHANGED notq

NextRun ==
    \/ RunSetup
    \/ RunStep
    \/ RunFinalize
    \/ RunReturn

SpecRun == InitRun /\ [][NextRun]_vars

\* ------------------------------------------------------- replay_episode
\* Numbers are counted in units of 1e-6.  The recorded numbers are what the
\* policy put out in the recording pass and the reproduced ones what it puts
\* out now: both are inputs.
Two == 2000000
Magnitudes == {0, Two}
Deviations == {0, 15, 25}

Abs(x) == IF x < 0 THEN 0 - x ELSE x

\* AllClose with rtol = 1e-4.
AllClose_Loose(a, b) == 100000 * Abs(a - b) <= 1000 + 10 * Abs(b)

\* np.allclose(a, b): |a - b| <= atol + rtol * |b| with the defaults
\* rtol = 1e-5 and atol = 1e-8, i.e. 0.01 units.
AllClose(a, b) == 100000 * Abs(a - b) <= 1000 + Abs(b)

\* The three assertions of one step, in their order: the first that fails.
CompareError_ValuesOnly(rec, rep) ==
    IF ~AllClose(rec[2], rep[2]) THEN "AssertionError:1548"
    ELSE "none"

CompareError(rec, rep) ==
    IF ~AllClose(rec[1], rep[1]) THEN "AssertionError:1547"
    ELSE IF ~AllClose(rec[2], rep[2]) THEN "AssertionError:1548"
    ELSE IF ~AllClose(rec[3], rep[3]) THEN "AssertionError:1549"
    ELSE "none"

\* replay_episode has been called on the directory of an episode of
\* 1 .. RepMaxLength steps.
InitReplay ==
    /\ OldIdle
    /\ YIdle
    /\ ResIdle
    /\ CycIdle
    /\ RunIdle
    /\ RecIdle
    /\ GaeIdle
    /\ rep_pc = "start"
    /\ rep_error = "none"
    /\ episode_length_file \in 1 .. RepMaxLength
    /\ recorded_episode_length = 0
    /\ recorded = <<>>
    /\ reproduced = <<>>
    /\ rep_i = 0
    /\ comparisons = 0

\* np.load of episode_length.npy, then the load loop: the recorded action,
\* value and log-probability of every step.
ReplayLoad ==
    /\ rep_pc = "start"
    /\ recorded_episode_length' = episode_length_file
    /\ \E m \in [1 .. episode_length_file -> Magnitudes] :
           recorded' = [i \in 1 .. episode_length_file |-> <<m[i], m[i], 0 - m[i]>>]
    /\ rep_pc' = "reproduce"
    /\ rep_i' = 0
    /\ UNCHANGED <<rep_error, episode_length_file, reproduced, comparisons>>
    /\ UNCHANGED notp

\* One iteration of the reproduce loop: the policy on the image of step i.
ReplayReproduce ==
    /\ rep_pc = "reproduce"
    /\ rep_i < recorded_episode_length
    /\ \E d \in [1 .. 3 -> Deviations] :
           reproduced' = Append(reproduced,
                                [k \in 1 .. 3 |-> recorded[rep_i + 1][k] + d[k]])
    /\ rep_i' = rep_i + 1
    /\ UNCHANGED <<rep_pc, rep_error, episode_length_file,
                   recorded_episode_length, recorded, comparisons>>
    /\ UNCHANGED notp

\* The reproduce loop is left.
ReplayReproduced ==
    /\ rep_pc = "reproduce"
    /\ rep_i >= recorded_episode_length
    /\ rep_pc' = "compare"
    /\ rep_i' = 0
    /\ UNCHANGED <<rep_error, episode_length_file, recorded_episode_length,
                   recorded, reproduced, comparisons>>
    /\ UNCHANGED notp

\* One iteration of the compare loop: three assertions.
ReplayCompare ==
    /\ rep_pc = "compare"
    /\ rep_i < recorded_episode_length
    /\ \E err \in {CompareError(recorded[rep_i + 1], reproduced[rep_i + 1])} :
          IF err # "none"
          THEN /\ rep_pc' = "aborted"
               /\ rep_error' = err
               /\ comparisons' = comparisons +
                      (CHOOSE k \in 1 .. 3 : ~AllClose(recorded[rep_i + 1][k],
                                                       reproduced[rep_i + 1][k])
                           /\ \A j \in 1 .. (k - 1) :
                                  AllClose(recorded[rep_i + 1][j],
                                           reproduced[rep_i + 1][j]))
               /\ UNCHANGED rep_i
          ELSE /\ comparisons' = comparisons + 3
               /\ rep_i' = rep_i + 1
               /\ UNCHANGED <<rep_pc, rep_error>>
    /\ UNCHANGED <<episode_length_file, recorded_episode_length, recorded,
                   reproduced>>
    /\ UNCHANGED notp

\* The compare loop is left: return reproduce_times.
ReplayReturn ==
    /\ rep_pc = "compare"
    /\ rep_i >= recorded_episode_length
    /\ rep_pc' = "returned"
    /\ UNCHANGED <<rep_error, episode_length_file, recorded_episode_length,
                   recorded, reproduced, rep_i, comparisons>>
    /\ UNCHANGED notp

NextReplay ==
    \/ ReplayLoad
    \/ ReplayReproduce
    \/ ReplayReproduced
    \/ ReplayCompare
    \/ ReplayReturn

SpecReplay == InitReplay /\ [][NextReplay]_vars

\* ------------------------------------- record_episodes and replay_episodes
\* A recording pass followed by a replay pass over the directories it left.
\* An artifact is <<directory, name, i>>; the directory of an episode is
\* <<difficulty, light setting, idx>>.  What replay_episode does with the
\* numbers it loads is the subject of the actions ReplayLoad .. ReplayReturn
\* above; here it is one step that passes or fails.
Difficulties == <<"easy", "medium", "hard">>
LightSettings == <<"standard">>
ListNames == {"infer_image", "step_image", "sampled_action", "obtained_value",
              "obtained_log_prob"}

\* n_episodes_per_setting of the record and replay settings.
EpisodesPerSetting == {1, 2}

\* len() of the five lists of record_episode.
NoLists == [name \in ListNames |-> 0]

EpisodePath(setting, i) == <<Difficulties[setting], LightSettings[1], i>>

\* The files record_episode saves: one per entry of each list.
SavedArtifacts(path, lens) ==
    UNION {{<<path, name, i>> : i \in 0 .. (lens[name] - 1)} : name \in ListNames}

\* LoadedArtifacts without the images of the step calls.
LoadedArtifacts_NoStepImages(path, L) ==
    {<<path, name, i>> : name \in ListNames \ {"step_image"}, i \in 0 .. (L - 1)}

\* The files the load loop of replay_episode reads for an episode of length L.
LoadedArtifacts(path, L) ==
    {<<path, name, i>> : name \in ListNames, i \in 0 .. (L - 1)}

\* The tracks of a difficulty (MapType.getAllTracksnumbersOfDifficulty).
RecTracks == CHOOSE t \in EvalTrackLists : TRUE
RecRotationRange == CHOOSE r \in EvalRotationRanges : TRUE

\* A frame stack is told by the updates made to it since resetMemory; an
\* update shifts the stack and inserts the frame made of an image.  The
\* environment has two methods that do so, memory_rollover and
\* memory_rolloverStep.
FrameStackings == {1, 2}
FrameStackUpdate(method, image) == <<"shift_and_insert", image>>

\* get_obs_bundled_calls on slot 0: stringToObservation of the inference
\* image and, with frame stacking, memory_rollover.
GetObsUpdates(fs, i) ==
    IF fs > 1 THEN <<FrameStackUpdate("memory_rollover", <<"infer_image", i>>)>>
    ELSE <<>>

\* processStepReturnObject on slot 0: the step image goes through the
\* memory rollover of the step.
StepUpdates(fs, i) ==
    IF fs > 1 THEN <<FrameStackUpdate("memory_rolloverStep", <<"step_image", i>>)>>
    ELSE <<>>

\* take_image of replay_episode: preprocessing and, with frame stacking,
\* memory_rolloverStep.
TakeImage(fs, image) ==
    IF fs > 1 THEN <<FrameStackUpdate("memory_rolloverStep", image)>> ELSE <<>>

\* ReplayUpdates without take_image on the step images.
ReplayUpdates_InferOnly(fs, L) ==
    LET upd[i \in 0 .. L] ==
            IF i = 0 THEN <<>>
            ELSE upd[i - 1] \o TakeImage(fs, <<"infer_image", i - 1>>)
    IN  upd[L]

\* The reproduce loop of replay_episode over an episode of length L:
\* take_image on inference image i, the policy, take_image on step image i.
ReplayUpdates(fs, L) ==
    LET upd[i \in 0 .. L] ==
            IF i = 0 THEN <<>>
            ELSE upd[i - 1] \o TakeImage(fs, <<"infer_image", i - 1>>)
                            \o TakeImage(fs, <<"step_image", i - 1>>)
    IN  upd[L]

\* StepWrapperLength with the step-return objects on both paths.
StepWrapperLength_Both(bundled, return_step_return_objects) ==
    IF return_step_return_objects THEN 5 ELSE 4

\* The number of values step_wrapper returns: the bundled path appends the
\* step-return objects when asked to, the other path returns env.step(...).
StepWrapperLength(bundled, return_step_return_objects) ==
    IF bundled
    THEN IF return_step_return_objects THEN 5 ELSE 4
    ELSE 4

\* Unpacking a result of n values into the five names of line 1304.
UnpackError(n) == IF n # 5 THEN "ValueError:1304" ELSE "none"

RecAbort(err) ==
    /\ rec_pc' = "aborted"
    /\ rec_error' = err

\* record_episodes has been called for rec_n_episodes episodes per setting,
\* each of at most RecMaxLength steps; replay_episodes will be called for
\* replay_n_episodes.
InitRecord ==
    /\ OldIdle
    /\ RowsIdle
    /\ LearnIdle
    /\ FreshTestIdle
    /\ ResIdle
    /\ CycOwnIdle
    /\ RunIdle
    /\ ReplayIdle
    /\ GaeIdle
    /\ LoopFresh
    /\ rec_pc = "start"
    /\ rec_error = "none"
    /\ use_bundled_calls \in BOOLEAN
    /\ rec_frame_stacking \in FrameStackings
    /\ memory_updates = <<>>
    /\ recorded_updates = {}
    /\ replayed_updates = {}
    /\ rec_n_episodes \in EpisodesPerSetting
    /\ replay_n_episodes \in EpisodesPerSetting
    /\ n_episodes_file = 0
    /\ rec_setting = 0
    /\ rec_idx = 0
    /\ rec_pairs = 0
    /\ rec_steps = 0
    /\ rec_lists = NoLists
    /\ dirs_created = {}
    /\ episode_steps = {}
    /\ files_saved = {}
    /\ lengths_saved = {}
    /\ dirs_visited = {}
    /\ files_loaded = {}

\* record_episodes up to its loops: the directory, the model, n_envs.npy
\* and n_episodes.npy.
RecordStart ==
    /\ rec_pc = "start"
    /\ n_episodes_file' = rec_n_episodes
    /\ rec_setting' = 0
    /\ rec_pc' = "settings"
    /\ UNCHANGED <<rec_error, rec_n_episodes, replay_n_episodes, rec_idx,
                   rec_pairs, rec_steps, rec_lists, dirs_created, episode_steps,
                   files_saved, lengths_saved, dirs_visited, files_loaded>>
    /\ UNCHANGED svars
    /\ UNCHANGED rxvars
    /\ UNCHANGED notr

\* for difficulty ..., for light_setting ...: the next setting, its
\* directory and its (map, rotation) pairs; after the last one
\* record_episodes returns.
RecordSetting ==
    /\ rec_pc = "settings"
    /\ IF rec_setting < Len(Difficulties)
       THEN /\ rec_setting' = rec_setting + 1
            /\ rec_pairs' = Len(GenerateMapAndRotations(RecRotationRange, RecTracks,
                                                        rec_n_episodes))
            /\ rec_idx' = 0
            /\ rec_pc' = "episodes"
       ELSE /\ rec_pc' = "recorded"
            /\ UNCHANGED <<rec_setting, rec_pairs, rec_idx>>
    /\ UNCHANGED <<rec_error, rec_n_episodes, replay_n_episodes, n_episodes_file,
                   rec_steps, rec_lists, dirs_created, episode_steps,
                   files_saved, lengths_saved, dirs_visited, files_loaded>>
    /\ UNCHANGED svars
    /\ UNCHANGED rxvars
    /\ UNCHANGED notr

\* for idx, map_and_rotation in enumerate(map_and_rotations): the directory
\* of the episode and the head of record_episode with its empty lists.
RecordEpisode ==
    /\ rec_pc = "episodes"
    /\ IF rec_idx < rec_pairs
       THEN /\ dirs_created' = dirs_created \cup {EpisodePath(rec_setting, rec_idx)}
            /\ rec_lists' = NoLists
            /\ rec_steps' = 0
            /\ rec_pc' = "episode"
       ELSE /\ rec_pc' = "settings"
            /\ UNCHANGED <<dirs_created, rec_lists, rec_steps>>
    /\ UNCHANGED <<rec_error, rec_n_episodes, replay_n_episodes, n_episodes_file,
                   rec_setting, rec_idx, rec_pairs, episode_steps, files_saved,
                   lengths_saved, dirs_visited, files_loaded>>
    /\ UNCHANGED svars
    /\ memory_updates' = <<>>
    /\ UNCHANGED <<use_bundled_calls, rec_frame_stacking, recorded_updates,
                   replayed_updates>>
    /\ UNCHANGED notr

\* One iteration of while not done: inference, clipping, step_wrapper and
\* the appends to the five lists.
RecordStep ==
    /\ rec_pc = "episode"
    /\ \E acts \in ActionBatches(action_space), done \in BOOLEAN :
          /\ (rec_steps + 1 >= RecMaxLength) => done
          /\ actions' = acts
          /\ clipped_actions' = ClippedActions(action_space, acts)
          /\ IF UnpackError(StepWrapperLength(use_bundled_calls, TRUE)) # "none"
             THEN /\ RecAbort(UnpackError(StepWrapperLength(use_bundled_calls, TRUE)))
                  /\ UNCHANGED <<rec_steps, rec_lists>>
             ELSE /\ rec_pc' = IF done THEN "save" ELSE "episode"
                  /\ rec_steps' = rec_steps + 1
                  /\ rec_lists' = [name \in ListNames |-> rec_lists[name] + 1]
                  /\ UNCHANGED rec_error
    /\ memory_updates' = memory_updates
                            \o GetObsUpdates(rec_frame_stacking, rec_steps)
                            \o StepUpdates(rec_frame_stacking, rec_steps)
    /\ UNCHANGED <<use_bundled_calls, rec_frame_stacking, recorded_updates,
                   replayed_updates>>
    /\ UNCHANGED <<rec_n_episodes, replay_n_episodes, n_episodes_file,
                   rec_setting, rec_idx, rec_pairs, dirs_created, episode_steps,
                   files_saved, lengths_saved, dirs_visited, files_loaded>>
    /\ UNCHANGED <<action_space, episodes_results, done_flags, rates_read,
                   premature_reads, late_observes>>
    /\ UNCHANGED notr

\* The rest of record_episode: the images and arrays of every list entry,
\* episode_length.npy, the return; its locals are gone.
RecordSave ==
    /\ rec_pc = "save"
    /\ files_saved' = files_saved \cup
           SavedArtifacts(EpisodePath(rec_setting, rec_idx), rec_lists)
    /\ lengths_saved' = lengths_saved \cup
           {<<EpisodePath(rec_setting, rec_idx), rec_lists["infer_image"]>>}
    /\ episode_steps' = episode_steps \cup
           {<<EpisodePath(rec_setting, rec_idx), rec_steps>>}
    /\ rec_idx' = rec_idx + 1
    /\ rec_lists' = NoLists
    /\ rec_steps' = 0
    /\ actions' = <<>>
    /\ clipped_actions' = <<>>
    /\ rec_pc' = "episodes"
    /\ UNCHANGED <<rec_error, rec_n_episodes, replay_n_episodes, n_episodes_file,
                   rec_setting, rec_pairs, dirs_created, dirs_visited, files_loaded>>
    /\ UNCHANGED <<action_space, episodes_results, done_flags, rates_read,
                   premature_reads, late_observes>>
    /\ recorded_updates' = recorded_updates \cup
           {<<EpisodePath(rec_setting, rec_idx), memory_updates>>}
    /\ memory_updates' = <<>>
    /\ UNCHANGED <<use_bundled_calls, rec_frame_stacking, replayed_updates>>
    /\ UNCHANGED notr

\* replay_episodes up to its loops: n_episodes must be the recorded one.
ReplayStart ==
    /\ rec_pc = "recorded"
    /\ IF replay_n_episodes # n_episodes_file
       THEN /\ RecAbort("AssertionError:1388")
            /\ UNCHANGED <<rec_setting, rec_idx>>
       ELSE /\ rec_pc' = "replay"
            /\ rec_setting' = 1
            /\ rec_idx' = 0
            /\ UNCHANGED rec_error
    /\ UNCHANGED <<rec_n_episodes, replay_n_episodes, n_episodes_file, rec_pairs,
                   rec_steps, rec_lists, dirs_created, episode_steps, files_saved,
                   lengths_saved, dirs_visited, files_loaded>>
    /\ UNCHANGED svars
    /\ UNCHANGED rxvars
    /\ UNCHANGED notr

\* The length that episode_length.npy of a directory holds.
LengthSaved(path) == CHOOSE L \in 0 .. RecMaxLength : <<path, L>> \in lengths_saved

\* for idx in range(n_episodes): replay_episode on the directory of the
\* episode.  A file that is not there raises FileNotFoundError, a
\* comparison that fails AssertionError.
ReplayOne ==
    /\ rec_pc = "replay"
    /\ rec_idx < replay_n_episodes
    /\ LET path == EpisodePath(rec_setting, rec_idx)
       IN  /\ dirs_visited' = dirs_visited \cup {path}
           /\ IF \A L \in 0 .. RecMaxLength : <<path, L>> \notin lengths_saved
              THEN /\ RecAbort("FileNotFoundError:1470")
                   /\ UNCHANGED <<files_loaded, rec_idx, replayed_updates>>
              ELSE /\ files_loaded' = files_loaded \cup
                          LoadedArtifacts(path, LengthSaved(path))
                   /\ IF ~(LoadedArtifacts(path, LengthSaved(path)) \subseteq files_saved)
                      THEN /\ RecAbort("FileNotFoundError:1473")
                           /\ UNCHANGED <<rec_idx, replayed_updates>>
                      ELSE /\ replayed_updates' = replayed_updates \cup
                                  {<<path, ReplayUpdates(rec_frame_stacking,
                                                         LengthSaved(path))>>}
                           /\ \E close \in BOOLEAN :
                                 IF close
                                 THEN /\ rec_idx' = rec_idx + 1
                                      /\ UNCHANGED <<rec_pc, rec_error>>
                                 ELSE /\ RecAbort("AssertionError:1547")
                                      /\ UNCHANGED rec_idx
    /\ UNCHANGED <<rec_n_episodes, replay_n_episodes, n_episodes_file,
                   rec_setting, rec_pairs, rec_steps, rec_lists, dirs_created,
                   episode_steps, files_saved, lengths_saved>>
    /\ UNCHANGED svars
    /\ UNCHANGED <<use_bundled_calls, rec_frame_stacking, memory_updates,
                   recorded_updates>>
    /\ UNCHANGED notr

\* The episodes of a setting are done: the next setting, or the end of
\* replay_episodes.
ReplaySetting ==
    /\ rec_pc = "replay"
    /\ rec_idx >= replay_n_episodes
    /\ IF rec_setting < Len(Difficulties)
       THEN /\ rec_setting' = rec_setting + 1
            /\ rec_idx' = 0
            /\ UNCHANGED rec_pc
       ELSE /\ rec_pc' = "replayed"
            /\ UNCHANGED <<rec_setting, rec_idx>>
    /\ UNCHANGED <<rec_error, rec_n_episodes, replay_n_episodes, n_episodes_file,
                   rec_pairs, rec_steps, rec_lists, dirs_created, episode_steps,
                   files_saved, lengths_saved, dirs_visited, files_loaded>>
    /\ UNCHANGED svars
    /\ UNCHANGED rxvars
    /\ UNCHANGED notr

NextRecord ==
    \/ RecordStart
    \/ RecordSetting
    \/ RecordEpisode
    \/ RecordStep
    \/ RecordSave
    \/ ReplayStart
    \/ ReplayOne
    \/ ReplaySetting

SpecRecord == InitRecord /\ [][NextRecord]_vars

\* ---------------------------------------- compute_returns_and_advantage
\* The end of a collection cycle for one environment: the buffer holds the
\* rewards, value estimates and episode starts of GaeHorizon or fewer steps
\* (episode_starts[t + 1] is the done flag of step t), the last step call has
\* reported dones, and the policy has estimated the value of the observation
\* that followed.  Numbers are integers.
GaeFactors == {0, 1}
GaeRewards == {0, 1, 2}
GaeValues == {0, 3}
GaeLastValues == {0, 5}

Bit(b) == IF b THEN 1 ELSE 0

\* One step of the backward pass of MyRolloutBuffer.compute_returns_and_advantage:
\* delta = r + gamma * next_value * next_non_terminal - value,
\* last_gae_lam = delta + gamma * lambda * next_non_terminal * last_gae_lam.
GaeStep(reward, value, nextValue, nextDone, g, l, lastGae) ==
    (reward + g * nextValue * (1 - Bit(nextDone)) - value)
        + g * l * (1 - Bit(nextDone)) * lastGae

\* The advantage of step t (1 .. T), from the last step backwards.
RECURSIVE Advantage(_, _, _, _, _, _, _, _)
Advantage(t, rws, vals, starts, lastValues, lastDones, g, l) ==
    IF t = Len(rws)
    THEN GaeStep(rws[t], vals[t], lastValues, lastDones, g, l, 0)
    ELSE GaeStep(rws[t], vals[t], vals[t + 1], starts[t + 1], g, l,
                 Advantage(t + 1, rws, vals, starts, lastValues, lastDones, g, l))

\* returns = advantages + values
ComputeReturnsAndAdvantage(rws, vals, starts, lastValues, lastDones, g, l) ==
    [t \in DOMAIN rws |->
        Advantage(t, rws, vals, starts, lastValues, lastDones, g, l) + vals[t]]

\* The call of collect_rollouts passing no done flags.
ReturnsOfCycle_NoDones(rws, vals, starts, values, dn, g, l) ==
    ComputeReturnsAndAdvantage(rws, vals, starts, values, FALSE, g, l)

\* rollout_buffer.compute_returns_and_advantage(last_values=values, dones=dones)
ReturnsOfCycle(rws, vals, starts, values, dn, g, l) ==
    ComputeReturnsAndAdvantage(rws, vals, starts, values, dn, g, l)

InitGae ==
    /\ OldIdle
    /\ YIdle
    /\ ResIdle
    /\ CycIdle
    /\ RunIdle
    /\ ReplayIdle
    /\ RecIdle
    /\ gae_pc = "collected"
    /\ gae_gamma \in GaeFactors
    /\ gae_lambda \in GaeFactors
    /\ \E T \in 1 .. GaeHorizon :
          /\ gae_rewards \in [1 .. T -> GaeRewards]
          /\ gae_values \in [1 .. T -> GaeValues]
          /\ gae_episode_starts \in [1 .. T -> BOOLEAN]
          /\ gae_episode_starts[1]
    /\ gae_dones \in BOOLEAN
    /\ gae_last_values \in GaeLastValues
    /\ gae_returns = <<>>

\* Lines 409-415.
GaeCompute ==
    /\ gae_pc = "collected"
    /\ gae_returns' = ReturnsOfCycle(gae_rewards, gae_values, gae_episode_starts,
                                     gae_last_values, gae_dones, gae_gamma,
                                     gae_lambda)
    /\ gae_pc' = "computed"
    /\ UNCHANGED <<gae_gamma, gae_lambda, gae_rewards, gae_values,
                   gae_episode_starts, gae_dones, gae_last_values>>
    /\ UNCHANGED nota

NextGae == GaeCompute

SpecGae == InitGae /\ [][NextGae]_vars

\* ------------------------------------------------- the outcome aggregator
\* An EpisodesResults on its own: terminal infos are observed and the rates
\* are computed, in any order.
ResRates(er) == <<er.success_rate, er.timeout_rate>>

InitResults ==
    /\ OldIdle
    /\ YIdle
    /\ CycOwnIdle
    /\ RunIdle
    /\ ReplayIdle
    /\ RecIdle
    /\ GaeIdle
    /\ action_space = [box |-> FALSE, low |-> 0, high |-> 2]
    /\ actions = <<>>
    /\ clipped_actions = <<>>
    /\ episodes_results = EpisodesResultsNew
    /\ done_flags = 0
    /\ rates_read = 0
    /\ premature_reads = 0
    /\ late_observes = 0
    /\ res_pc = "created"
    /\ res_finalized = 0
    /\ rates_once = <<NoRate, NoRate>>

\* processInfoDictEpisodeFinished(info)
ResObserve ==
    /\ res_pc = "created"
    /\ episodes_results.completed_episodes < ResMaxEpisodes
    /\ \E endEvent \in EndEvents :
          episodes_results' = ProcessInfoDictEpisodeFinished(episodes_results, endEvent)
    /\ done_flags' = done_flags + 1
    /\ late_observes' = late_observes + (IF episodes_results.computed > 0 THEN 1 ELSE 0)
    /\ res_finalized' = 0
    /\ UNCHANGED <<res_pc, rates_once, action_space, actions, clipped_actions,
                   rates_read, premature_reads>>
    /\ UNCHANGED notz

\* computeRates(), the first or the second time since the last observation.
ResFinalize ==
    /\ res_pc = "created"
    /\ res_finalized < 2
    /\ episodes_results' = ComputeRates(episodes_results)
    /\ res_finalized' = res_finalized + 1
    /\ rates_once' = IF res_finalized = 0 THEN ResRates(episodes_results')
                     ELSE rates_once
    /\ UNCHANGED <<res_pc, action_space, actions, clipped_actions, done_flags,
                   rates_read, premature_reads, late_observes>>
    /\ UNCHANGED notz

NextResults ==
    \/ ResObserve
    \/ ResFinalize

SpecResults == InitResults /\ [][NextResults]_vars

\* ------------------------------------------------ every loop that steps
\* A collection run, an evaluation run or a recording pass.
InitLoops ==
    \/ InitCycle
    \/ InitRun
    \/ InitRecord

NextLoops ==
    \/ NextCycle
    \/ NextRun
    \/ NextRecord

SpecLoops == InitLoops /\ [][NextLoops]_vars

\* ------------------------------------- collect_rollouts: what a row holds
\* learn with its collection cycles again, this time for what each buffer
\* row is given: the observation batch, the batch its actions, values and
\* log-probabilities were inferred from, and the episode-start flags.  A
\* batch is told apart by where it came from: the reset of a cycle, the step
\* call of an iteration, or an acquisition made by inference itself.
NoBatch == <<"none", 0>>
ResetBatch(it) == <<"reset", it>>
StepBatch(t) == <<"step", t>>
FreshBatch(k) == <<"fresh", k>>

\* get_obs_single_calls asks every slot in turn, get_obs_bundled_calls asks
\* all of them with one request and decodes one string per slot.
GetObsEnvs(bundled, len) ==
    IF bundled THEN 0 .. (len - 1) ELSE Envs

\* InferFromObservations returning the cached batch whatever the policy ran on.
InferFromObservations_ReturnsLast(fresh, last, k) ==
    IF fresh
    THEN [obs_tensor |-> FreshBatch(k + 1), obs |-> last, acquisitions |-> k + 1]
    ELSE [obs_tensor |-> last, obs |-> last, acquisitions |-> k]

\* inferFromObservations: the batch the policy is run on (obs_tensor) and the
\* batch returned with the policy's outputs (obs), k acquisitions having been
\* made in this cycle before.
InferFromObservations(fresh, last, k) ==
    IF fresh
    THEN [obs_tensor |-> FreshBatch(k + 1), obs |-> FreshBatch(k + 1),
          acquisitions |-> k + 1]
    ELSE [obs_tensor |-> last, obs |-> last, acquisitions |-> k]

RowAbort(err) ==
    /\ row_pc' = "aborted"
    /\ row_error' = err

\* learn() has been entered; _setup_learn has reset the environments and
\* set every episode-start flag.
InitRows ==
    /\ OldIdle
    /\ XIdle
    /\ LearnIdle
    /\ FreshTestIdle
    /\ RecordExtraIdle
    /\ row_pc = "learn"
    /\ row_error = "none"
    /\ row_iteration = 0
    /\ row_num_timesteps = 0
    /\ row_n_steps = 0
    /\ row_idx = 0
    /\ row_use_fresh_obs \in BOOLEAN
    /\ row_use_bundled_calls \in BOOLEAN
    /\ last_episode_starts = [e \in Envs |-> TRUE]
    /\ row_last_obs = ResetBatch(0)
    /\ row_new_obs = NoBatch
    /\ row_dones = AllFalse
    /\ row_dict = [e \in Envs |-> EmptyDict]
    /\ obs_given = NoBatch
    /\ obs_returned = NoBatch
    /\ acquisitions = 0
    /\ acquired_envs = {}
    /\ buffer_observations = <<>>
    /\ buffer_inferred_from = <<>>
    /\ buffer_episode_starts = <<>>
    /\ buffer_steps = <<>>

\* while self.num_timesteps < total_timesteps: iteration += 1 and the head
\* of collect_rollouts: n_steps = 0, rollout_buffer.reset(), the empty
\* ledgers, new_obs = env.reset() and, in cached mode, self._last_obs.
RowStart ==
    /\ row_pc = "learn"
    /\ row_num_timesteps < TotalTimesteps
    /\ row_iteration' = row_iteration + 1
    /\ row_n_steps' = 0
    /\ row_idx' = 0
    /\ row_dict' = [e \in Envs |-> EmptyDict]
    /\ row_new_obs' = ResetBatch(row_iteration + 1)
    /\ row_last_obs' = UpdateLastObs(row_use_fresh_obs, row_last_obs,
                                     ResetBatch(row_iteration + 1))
    /\ acquisitions' = 0
    /\ acquired_envs' = {}
    /\ buffer_observations' = <<>>
    /\ buffer_inferred_from' = <<>>
    /\ buffer_episode_starts' = <<>>
    /\ buffer_steps' = <<>>
    /\ row_pc' = AfterIteration(0)
    /\ UNCHANGED <<row_error, row_num_timesteps, row_use_fresh_obs,
                   row_use_bundled_calls, last_episode_starts, row_dones,
                   obs_given, obs_returned>>
    /\ UNCHANGED notw

\* The loop condition of learn fails: on_training_end, return self.
RowLearnExit ==
    /\ row_pc = "learn"
    /\ row_num_timesteps >= TotalTimesteps
    /\ row_pc' = "finished"
    /\ UNCHANGED <<row_error, row_iteration, row_num_timesteps, row_n_steps,
                   row_idx, row_use_fresh_obs, row_use_bundled_calls,
                   last_episode_starts, row_last_obs, row_new_obs, row_dones,
                   row_dict, obs_given, obs_returned, acquisitions,
                   acquired_envs, buffer_observations, buffer_inferred_from,
                   buffer_episode_starts, buffer_steps>>
    /\ UNCHANGED notw

\* One iteration up to the callback: inferFromObservations (with its
\* acquisition in fresh mode, whose bundled form asserts the response
\* length), step_wrapper, the timestep counter, callback.on_step().
RowStep ==
    /\ row_pc = "step"
    /\ LoopCondition(row_n_steps)
    /\ \E len \in (IF row_use_fresh_obs /\ row_use_bundled_calls
                   THEN InfoLens ELSE {NumEnvs}) :
          IF row_use_fresh_obs /\ row_use_bundled_calls
                /\ BundledError(len, NumEnvs) # "none"
          THEN /\ RowAbort(BundledError(len, NumEnvs))
               /\ acquisitions' = acquisitions + 1
               /\ acquired_envs' = {}
               /\ UNCHANGED <<obs_given, obs_returned, row_dones, row_new_obs,
                              row_num_timesteps, row_n_steps>>
          ELSE LET inf == InferFromObservations(row_use_fresh_obs, row_last_obs,
                                                acquisitions)
               IN  /\ obs_given' = inf.obs_tensor
                   /\ obs_returned' = inf.obs
                   /\ acquisitions' = inf.acquisitions
                   /\ acquired_envs' = IF row_use_fresh_obs
                                       THEN GetObsEnvs(row_use_bundled_calls, len)
                                       ELSE {}
                   /\ row_new_obs' = StepBatch(row_n_steps)
                   /\ row_num_timesteps' = row_num_timesteps + NumEnvs
                   /\ UNCHANGED row_error
                   /\ \E dn \in [Envs -> BOOLEAN], continue \in BOOLEAN :
                         /\ row_dones' = dn
                         /\ IF continue
                            THEN /\ row_n_steps' = row_n_steps + 1
                                 /\ row_pc' = "add"
                            ELSE /\ row_n_steps' = row_n_steps
                                 /\ row_pc' = "stopped"
    /\ UNCHANGED <<row_iteration, row_idx, row_use_fresh_obs,
                   row_use_bundled_calls, last_episode_starts, row_last_obs,
                   row_dict, buffer_observations, buffer_inferred_from,
                   buffer_episode_starts, buffer_steps>>
    /\ UNCHANGED notw

\* rollout_buffer.add(obs, actions, rewards, self._last_episode_starts,
\* values, log_probs): the next row.
RowAdd ==
    /\ row_pc = "add"
    /\ buffer_observations' = Append(buffer_observations, obs_returned)
    /\ buffer_inferred_from' = Append(buffer_inferred_from, obs_given)
    /\ buffer_episode_starts' = Append(buffer_episode_starts, last_episode_starts)
    /\ buffer_steps' = Append(buffer_steps, [e \in Envs |-> 0 - 1])
    /\ row_idx' = 0
    /\ row_pc' = "register"
    /\ UNCHANGED <<row_error, row_iteration, row_num_timesteps, row_n_steps,
                   row_use_fresh_obs, row_use_bundled_calls,
                   last_episode_starts, row_last_obs, row_new_obs, row_dones,
                   row_dict, obs_given, obs_returned, acquisitions,
                   acquired_envs>>
    /\ UNCHANGED notw

\* for idx, info in enumerate(infos): the simulator step of the row is
\* entered into the ledger of the environment, under its two assertions.
RowRegister ==
    /\ row_pc = "register"
    /\ \E s \in StepIdxs :
          IF RegisterError(row_dict[row_idx], s) # "none"
          THEN /\ RowAbort(RegisterError(row_dict[row_idx], s))
               /\ UNCHANGED <<row_idx, row_dict, buffer_steps>>
          ELSE /\ row_dict' = [row_dict EXCEPT
                                  ![row_idx] = RegisterEntry(@, s, Len(buffer_steps) - 1)]
               /\ buffer_steps' = [buffer_steps EXCEPT
                                      ![Len(buffer_steps)][row_idx] = s]
               /\ row_idx' = NextIdx(row_idx)
               /\ row_pc' = NextPass(row_idx, "register", "reconcile")
               /\ UNCHANGED row_error
    /\ UNCHANGED <<row_iteration, row_num_timesteps, row_n_steps,
                   row_use_fresh_obs, row_use_bundled_calls,
                   last_episode_starts, row_last_obs, row_new_obs, row_dones,
                   obs_given, obs_returned, acquisitions, acquired_envs,
                   buffer_observations, buffer_inferred_from,
                   buffer_episode_starts>>
    /\ UNCHANGED notw

\* for idx, done in enumerate(dones): the ledger of a finished episode (or
\* of every environment at the horizon) is reconciled and emptied.  After
\* the last pass self._last_episode_starts = dones and, in cached mode,
\* self._last_obs = new_obs.
RowReconcile ==
    /\ row_pc = "reconcile"
    /\ \E auth \in (IF NeedsReconcile(row_dones[row_idx], row_n_steps)
                    THEN AuthSeqs ELSE {<<>>}),
          amount \in (IF NeedsReconcile(row_dones[row_idx], row_n_steps)
                      THEN Amounts ELSE {0}) :
          IF NeedsReconcile(row_dones[row_idx], row_n_steps)
                /\ ReconcileError(row_dict[row_idx], auth, amount) # "none"
          THEN /\ RowAbort(ReconcileError(row_dict[row_idx], auth, amount))
               /\ UNCHANGED <<row_idx, row_dict, last_episode_starts,
                              row_last_obs>>
          ELSE /\ row_dict' = IF NeedsReconcile(row_dones[row_idx], row_n_steps)
                              THEN [row_dict EXCEPT ![row_idx] = EmptyDict]
                              ELSE row_dict
               /\ row_idx' = NextIdx(row_idx)
               /\ row_pc' = NextPass(row_idx, "reconcile",
                                     AfterIteration(row_n_steps))
               /\ IF row_idx + 1 < NumEnvs
                  THEN UNCHANGED <<last_episode_starts, row_last_obs>>
                  ELSE /\ last_episode_starts' = row_dones
                       /\ row_last_obs' = UpdateLastObs(row_use_fresh_obs,
                                                        row_last_obs, row_new_obs)
               /\ UNCHANGED row_error
    /\ UNCHANGED <<row_iteration, row_num_timesteps, row_n_steps,
                   row_use_fresh_obs, row_use_bundled_calls, row_new_obs,
                   row_dones, obs_given, obs_returned, acquisitions,
                   acquired_envs, buffer_observations, buffer_inferred_from,
                   buffer_episode_starts, buffer_steps>>
    /\ UNCHANGED notw

\* The loop is left: the last value estimate, the returns and advantages;
\* collect_rollouts returns True, learn trains on the buffer and tests its
\* loop condition again.  The locals of collect_rollouts are gone.
RowFlush ==
    /\ row_pc = "flush"
    /\ row_pc' = "learn"
    /\ row_n_steps' = 0
    /\ row_new_obs' = NoBatch
    /\ row_dones' = AllFalse
    /\ obs_given' = NoBatch
    /\ obs_returned' = NoBatch
    /\ UNCHANGED <<row_error, row_iteration, row_num_timesteps, row_idx,
                   row_use_fresh_obs, row_use_bundled_calls,
                   last_episode_starts, row_last_obs, row_dict, acquisitions,
                   acquired_envs, buffer_observations, buffer_inferred_from,
                   buffer_episode_starts, buffer_steps>>
    /\ UNCHANGED notw

\* collect_rollouts has returned the bare value False, which learn cannot
\* unpack.
RowUnpackStopped ==
    /\ row_pc = "stopped"
    /\ RowAbort("TypeError:558")
    /\ UNCHANGED <<row_iteration, row_num_timesteps, row_n_steps, row_idx,
                   row_use_fresh_obs, row_use_bundled_calls,
                   last_episode_starts, row_last_obs, row_new_obs, row_dones,
                   row_dict, obs_given, obs_returned, acquisitions,
                   acquired_envs, buffer_observations, buffer_inferred_from,
                   buffer_episode_starts, buffer_steps>>
    /\ UNCHANGED notw

NextRows ==
    \/ RowStart
    \/ RowLearnExit
    \/ RowStep
    \/ RowAdd
    \/ RowRegister
    \/ RowReconcile
    \/ RowFlush
    \/ RowUnpackStopped

SpecRows == InitRows /\ [][NextRows]_vars

\* ------------------------------------------------------------------ learn
\* The training loop of learn with collect_rollouts reduced to its step
\* counter: the loop condition, the steps of a cycle, the callback verdict,
\* the advantage computation, train and the evaluation block.
LearnTotals == 0 .. (2 * NRolloutSteps * NumEnvs + 1)

\* log_interval: None or an integer.
LogIntervals == {<<"None", 0>>} \cup {<<"int", k>> : k \in 0 .. 3}

\* The procedures of the evaluation block, in call order.
EvalProcedures ==
    <<"eval", "test_episodes_identical_start_conditions",
      "test_deterministic_improves", "test_fresh_obs_improves">>

\* StepTimesteps counting one step per call.
StepTimesteps_One(t, N) == t + 1

\* self.num_timesteps += env.num_envs
StepTimesteps(t, N) == t + N

\* EvalDue ignoring the iteration number.
EvalDue_EveryIteration(interval, it) == interval[1] # "None"

\* log_interval is not None and iteration % log_interval == 0
EvalDue(interval, it) ==
    interval[1] # "None" /\ it % interval[2] = 0

LrnAbort(err) ==
    /\ lrn_pc' = "aborted"
    /\ lrn_error' = err

\* learn has been called and _setup_learn has returned: iteration = 0,
\* num_timesteps = 0.
InitLearn ==
    /\ OldIdle
    /\ XIdle
    /\ RowsIdle
    /\ FreshTestIdle
    /\ RecordExtraIdle
    /\ lrn_pc = "learn"
    /\ lrn_error = "none"
    /\ lrn_iteration = 0
    /\ lrn_num_timesteps = 0
    /\ lrn_total_timesteps \in LearnTotals
    /\ lrn_num_envs \in 1 .. NumEnvs
    /\ lrn_n_rollout_steps \in 1 .. NRolloutSteps
    /\ lrn_n_steps = 0
    /\ log_interval \in LogIntervals
    /\ lrn_advantages = 0
    /\ lrn_trains = 0
    /\ lrn_evals = <<>>
    /\ lrn_cycles = 0

\* while self.num_timesteps < total_timesteps: iteration += 1,
\* collect_rollouts is entered with n_steps = 0.
LrnStart ==
    /\ lrn_pc = "learn"
    /\ lrn_num_timesteps < lrn_total_timesteps
    /\ lrn_iteration' = lrn_iteration + 1
    /\ lrn_n_steps' = 0
    /\ lrn_pc' = "collect"
    /\ UNCHANGED <<lrn_error, lrn_num_timesteps, lrn_total_timesteps, lrn_num_envs,
                   lrn_n_rollout_steps, log_interval, lrn_advantages, lrn_trains,
                   lrn_evals, lrn_cycles>>
    /\ UNCHANGED notln

\* The loop condition fails: callback.on_training_end(), return self.
LrnReturn ==
    /\ lrn_pc = "learn"
    /\ lrn_num_timesteps >= lrn_total_timesteps
    /\ lrn_pc' = "returned"
    /\ UNCHANGED <<lrn_error, lrn_iteration, lrn_num_timesteps, lrn_total_timesteps,
                   lrn_num_envs, lrn_n_rollout_steps, lrn_n_steps, log_interval,
                   lrn_advantages, lrn_trains, lrn_evals, lrn_cycles>>
    /\ UNCHANGED notln

\* One iteration of while n_steps < n_rollout_steps: inference and step,
\* the step counter, the callback verdict (return False on a stop),
\* n_steps += 1.
LrnStep ==
    /\ lrn_pc = "collect"
    /\ lrn_n_steps < lrn_n_rollout_steps
    /\ lrn_num_timesteps' = StepTimesteps(lrn_num_timesteps, lrn_num_envs)
    /\ \E on_step \in BOOLEAN :
          IF on_step
          THEN /\ lrn_n_steps' = lrn_n_steps + 1
               /\ UNCHANGED lrn_pc
          ELSE /\ lrn_pc' = "stopped"
               /\ UNCHANGED lrn_n_steps
    /\ UNCHANGED <<lrn_error, lrn_iteration, lrn_total_timesteps, lrn_num_envs,
                   lrn_n_rollout_steps, log_interval, lrn_advantages, lrn_trains,
                   lrn_evals, lrn_cycles>>
    /\ UNCHANGED notln

\* The loop of collect_rollouts is over: compute_returns_and_advantage, the
\* records, return True, cr_time.
LrnAdvantage ==
    /\ lrn_pc = "collect"
    /\ lrn_n_steps >= lrn_n_rollout_steps
    /\ lrn_advantages' = lrn_advantages + 1
    /\ lrn_cycles' = lrn_cycles + 1
    /\ lrn_pc' = "collected"
    /\ UNCHANGED <<lrn_error, lrn_iteration, lrn_num_timesteps, lrn_total_timesteps,
                   lrn_num_envs, lrn_n_rollout_steps, lrn_n_steps, log_interval,
                   lrn_trains, lrn_evals>>
    /\ UNCHANGED notln

\* collect_rollouts returned the bare value False: the unpacking in learn
\* raises TypeError.
LrnUnpackStopped ==
    /\ lrn_pc = "stopped"
    /\ LrnAbort("TypeError:558")
    /\ UNCHANGED <<lrn_iteration, lrn_num_timesteps, lrn_total_timesteps,
                   lrn_num_envs, lrn_n_rollout_steps, lrn_n_steps, log_interval,
                   lrn_advantages, lrn_trains, lrn_evals, lrn_cycles>>
    /\ UNCHANGED notln

\* The records of the iteration, self.train(), then the test of log_interval:
\* iteration % 0 raises ZeroDivisionError.
LrnTrain ==
    /\ lrn_pc = "collected"
    /\ lrn_trains' = lrn_trains + 1
    /\ IF log_interval = <<"int", 0>>
       THEN LrnAbort("ZeroDivisionError:623")
       ELSE /\ lrn_pc' = IF EvalDue(log_interval, lrn_iteration)
                         THEN "eval" ELSE "learn"
            /\ UNCHANGED lrn_error
    /\ UNCHANGED <<lrn_iteration, lrn_num_timesteps, lrn_total_timesteps,
                   lrn_num_envs, lrn_n_rollout_steps, lrn_n_steps, log_interval,
                   lrn_advantages, lrn_evals, lrn_cycles>>
    /\ UNCHANGED notln

\* The evaluation block: self.eval, the identical-start test, the
\* deterministic test and the fresh-observation test.  With one environment
\* the first eval_model_track addresses logging slot 1 and raises.
LrnEval ==
    /\ lrn_pc = "eval"
    /\ IF lrn_num_envs < 2
       THEN /\ lrn_evals' = Append(lrn_evals, <<lrn_iteration, EvalProcedures[1]>>)
            /\ LrnAbort("IndexError:857")
       ELSE /\ lrn_evals' = lrn_evals \o
                   [k \in 1 .. Len(EvalProcedures) |->
                       <<lrn_iteration, EvalProcedures[k]>>]
            /\ lrn_pc' = "learn"
            /\ UNCHANGED lrn_error
    /\ UNCHANGED <<lrn_iteration, lrn_num_timesteps, lrn_total_timesteps,
                   lrn_num_envs, lrn_n_rollout_steps, lrn_n_steps, log_interval,
                   lrn_advantages, lrn_trains, lrn_cycles>>
    /\ UNCHANGED notln

NextLearn ==
    \/ LrnStart
    \/ LrnReturn
    \/ LrnStep
    \/ LrnAdvantage
    \/ LrnUnpackStopped
    \/ LrnTrain
    \/ LrnEval

SpecLearn == InitLearn /\ [][NextLearn]_vars

\* Every external call of learn returns: a step that is possible is taken.
SpecLearnFair == SpecLearn /\ WF_vars(NextLearn)

\* ------------------------------------------------- test_fresh_obs_improves
\* test_fresh_obs_improves with eval_model_track reduced to the parameters
\* and the observation mode it is called with.
FreshTestEpisodes == 0 .. 2
FreshTestIterations == 1 .. 2

\* The arguments of a call of test_fresh_obs_improves and the number of
\* environments of self.env.
FreshTestArgs ==
    [n_episodes : FreshTestEpisodes,
     difficulty : {Difficulties[k] : k \in DOMAIN Difficulties},
     iteration : FreshTestIterations, light_setting : {"standard"},
     log : BOOLEAN, n_envs : 1 .. 2]

\* self.eval_model_track(n_episodes, difficulty, iteration, light_setting,
\* deterministic=..., log=False) under the current observation mode.
EvalModelTrackCall(args, deterministic, fresh) ==
    [n_eval_episodes |-> args.n_episodes, difficulty |-> args.difficulty,
     iteration |-> args.iteration, light_setting |-> args.light_setting,
     deterministic |-> deterministic, log |-> FALSE, use_fresh_obs |-> fresh]

\* The exception of an eval_model_track call: with one environment the
\* logging slot 1 does not exist.
EvalModelTrackError(args) ==
    IF args.n_envs < 2 THEN "IndexError:857" ELSE "none"

FreshTestAbort(err) ==
    /\ ft_pc' = "aborted"
    /\ ft_error' = err

InitFreshTest ==
    /\ OldIdle
    /\ XIdle
    /\ RowsIdle
    /\ LearnIdle
    /\ RecordExtraIdle
    /\ ft_pc = "start"
    /\ ft_error = "none"
    /\ ft_use_fresh_obs \in BOOLEAN
    /\ ft_before = ft_use_fresh_obs
    /\ fresh_obs_status = FALSE
    /\ ft_args \in FreshTestArgs
    /\ ft_calls = <<>>

\* fresh_obs_status = self.use_fresh_obs; self.use_fresh_obs = True
FreshTestSave ==
    /\ ft_pc = "start"
    /\ fresh_obs_status' = ft_use_fresh_obs
    /\ ft_use_fresh_obs' = TRUE
    /\ ft_pc' = "fresh"
    /\ UNCHANGED <<ft_error, ft_before, ft_args, ft_calls>>
    /\ UNCHANGED notf

\* The evaluation in fresh mode, then self.use_fresh_obs = False.
FreshTestEvalFresh ==
    /\ ft_pc = "fresh"
    /\ ft_calls' = Append(ft_calls,
                          EvalModelTrackCall(ft_args, TRUE, ft_use_fresh_obs))
    /\ IF EvalModelTrackError(ft_args) # "none"
       THEN /\ FreshTestAbort(EvalModelTrackError(ft_args))
            /\ UNCHANGED ft_use_fresh_obs
       ELSE /\ ft_use_fresh_obs' = FALSE
            /\ ft_pc' = "nonfresh"
            /\ UNCHANGED ft_error
    /\ UNCHANGED <<fresh_obs_status, ft_before, ft_args>>
    /\ UNCHANGED notf

\* The evaluation in cached mode, then self.use_fresh_obs = fresh_obs_status.
FreshTestEvalNonfresh ==
    /\ ft_pc = "nonfresh"
    /\ ft_calls' = Append(ft_calls,
                          EvalModelTrackCall(ft_args, FALSE, ft_use_fresh_obs))
    /\ IF EvalModelTrackError(ft_args) # "none"
       THEN /\ FreshTestAbort(EvalModelTrackError(ft_args))
            /\ UNCHANGED ft_use_fresh_obs
       ELSE /\ ft_use_fresh_obs' = fresh_obs_status
            /\ ft_pc' = "record"
            /\ UNCHANGED ft_error
    /\ UNCHANGED <<fresh_obs_status, ft_before, ft_args>>
    /\ UNCHANGED notf

\* The prints, the records under log, the return.
FreshTestReturn ==
    /\ ft_pc = "record"
    /\ ft_pc' = "returned"
    /\ UNCHANGED <<ft_error, ft_use_fresh_obs, fresh_obs_status, ft_before,
                   ft_args, ft_calls>>
    /\ UNCHANGED notf

NextFreshTest ==
    \/ FreshTestSave
    \/ FreshTestEvalFresh
    \/ FreshTestEvalNonfresh
    \/ FreshTestReturn

SpecFreshTest == InitFreshTest /\ [][NextFreshTest]_vars

\* ================================================================== claims
\* A loop iteration of collect_rollouts has just completed.
IterationEnded == pc \in {"step", "flush"} /\ n_steps > 0

\* C1: in every state of a collection cycle the keys of every environment's
\* ledger are exactly 0 .. len-1, len being the number of its entries.
C1_LedgerKeysContiguous ==
    \A e \in Envs :
        DOMAIN reward_correction_dict[e] = 0 .. (DictLen(reward_correction_dict[e]) - 1)

C1_Witness ==
    \E e \in Envs :
        /\ DictLen(reward_correction_dict[e]) >= 2
        /\ reward_correction_dict[e][1] = insertpos

\* The steps that C2 calls fatal for a ledger d.
C2_Fatal(d, s) ==
    \/ s \in DOMAIN d
    \/ s # 0 /\ (DOMAIN d = {} \/ s # Max(DOMAIN d) + 1)

\* C2: registering step s for environment e aborts the cycle and adds no
\* entry when s is already a key, or s # 0 and s is not the largest key plus
\* one (an empty ledger included); otherwise exactly the entry
\* s -> current buffer row is added to e's ledger.
C2_RegisterFatalOrAdds ==
    [][pc = "register" =>
        LET e == idx
            d == reward_correction_dict[e]
            s == info_step'[e]
        IN  IF C2_Fatal(d, s)
            THEN /\ pc' = "aborted"
                 /\ reward_correction_dict' = reward_correction_dict
            ELSE /\ pc' # "aborted"
                 /\ DOMAIN reward_correction_dict'[e] = DOMAIN d \cup {s}
                 /\ reward_correction_dict'[e][s] = insertpos
                 /\ \A k \in DOMAIN d : reward_correction_dict'[e][k] = d[k]
                 /\ \A o \in Envs \ {e} :
                       reward_correction_dict'[o] = reward_correction_dict[o]]_vars

C2_Witness ==
    /\ pc = "aborted"
    /\ error = "ValueError:374"
    /\ reward_correction_dict[idx] = EmptyDict
    /\ info_step[idx] # 0
    /\ \E o \in Envs : o < idx /\ DictLen(reward_correction_dict[o]) = 1

\* C3: when returns and advantages are computed, the buffer reward of the
\* terminal step of an episode truncated by the time limit is the raw step
\* reward plus gamma * V(terminal_observation).
C3_TruncatedRewardBootstrapped ==
    pc = "flush" =>
        \A e \in Envs :
            bootstrapped[e] =>
                buf_rewards[insertpos][e] = raw_rewards[e] + gamma * terminal_value[e]

\* C4: at the end of an iteration in which environment e's episode closed,
\* every buffer slot registered for that episode holds the authoritative
\* reward of its simulator step, the slot of the closing iteration included.
C4_ClosedEpisodeHoldsAuthoritative ==
    IterationEnded =>
        \A e \in Envs :
            dones[e] =>
                /\ \A k \in DOMAIN reconciled[e] :
                      /\ k + 1 \in DOMAIN infos_rewards[e]
                      /\ buf_rewards[reconciled[e][k]][e] = infos_rewards[e][k + 1]
                /\ \E k \in DOMAIN reconciled[e] : reconciled[e][k] = insertpos

C4_Witness ==
    /\ IterationEnded
    /\ \E e \in Envs :
          /\ dones[e]
          /\ DictLen(reconciled[e]) >= 2
          /\ buf_rewards[insertpos][e] = infos_rewards[e][Len(infos_rewards[e])]

\* C5: when a cycle reaches compute_returns_and_advantage, reconciliation has
\* overwritten each of the T*N reward slots exactly once and every ledger is
\* empty; no slot is ever overwritten twice.
C5_EverySlotReconciledOnce ==
    /\ \A row \in Rows, e \in Envs : corrections[row][e] <= 1
    /\ pc = "flush" =>
          /\ buf_pos = NRolloutSteps
          /\ \A row \in Rows, e \in Envs : corrections[row][e] = 1
          /\ \A e \in Envs : reward_correction_dict[e] = EmptyDict

C5_Witness ==
    /\ pc = "flush"
    /\ \E e \in Envs : ~dones[e] /\ DictLen(reconciled[e]) = NRolloutSteps
    /\ \E e \in Envs : dones[e] /\ DictLen(reconciled[e]) < NRolloutSteps

\* C6: every ledger is empty when a cycle starts; after an iteration in which
\* e's done flag was observed or the step counter reached the horizon e's
\* ledger is empty; after any other iteration it holds one entry more than
\* before the iteration.
C6_LedgerClearedOrGrown ==
    /\ (pc = "step" /\ n_steps = 0) =>
          \A e \in Envs : reward_correction_dict[e] = EmptyDict
    /\ IterationEnded =>
          \A e \in Envs :
              IF dones[e] \/ n_steps >= NRolloutSteps
              THEN reward_correction_dict[e] = EmptyDict
              ELSE DictLen(reward_correction_dict[e]) = len_before[e] + 1

C6_Witness ==
    /\ pc = "step"
    /\ n_steps > 0
    /\ \E e \in Envs : ~dones[e] /\ DictLen(reward_correction_dict[e]) = len_before[e] + 1
    /\ \E e \in Envs : dones[e] /\ reward_correction_dict[e] = EmptyDict

\* C7: an info list whose length differs from the environment count, an
\* authoritative reward list whose length differs from the ledger being
\* reconciled, or a ledger length that differs from amount_of_steps ends the
\* cycle: nothing follows the abort, compute_returns_and_advantage is not
\* called for the cycle and train does not run on its buffer.
C7_MismatchAborts ==
    /\ [][/\ (pc = "bootstrap" /\ infos_len # NumEnvs) =>
                pc' \in {"bootstrap", "aborted"}
          /\ (pc = "reconcile" /\ (dones[idx] \/ n_steps >= NRolloutSteps)) =>
                ((\/ Len(infos_rewards'[idx]) # DictLen(reward_correction_dict[idx])
                  \/ DictLen(reward_correction_dict[idx]) # info_amount'[idx])
                 => pc' = "aborted")
          /\ pc = "aborted" => pc' = "aborted"]_vars
    /\ [](pc = "aborted" => advantage_calls = 0 /\ train_calls < iteration)
    /\ [](infos_len # NumEnvs => pc \in {"bootstrap", "aborted", "stopped"})

C7_Witness ==
    /\ pc = "aborted"
    /\ error = "AssertionError:394"
    /\ Len(infos_rewards[idx]) = DictLen(reward_correction_dict[idx])
    /\ info_amount[idx] # DictLen(reward_correction_dict[idx])
    /\ advantage_calls = 0

\* C8: a cycle that the callback does not stop runs exactly n_rollout_steps
\* iterations, each stepping all N environments once and adding one buffer
\* row, and leaves the loop exactly when the step counter reaches
\* n_rollout_steps, episodes in progress or not, with all rows in the buffer.
C8_ExactlyHorizonIterations ==
    /\ pc \in {"step", "register", "reconcile", "flush"} =>
          /\ buf_pos = n_steps
          /\ total_timesteps = n_steps * NumEnvs
    /\ pc \in {"step", "bootstrap", "register", "reconcile"} =>
          n_steps <= NRolloutSteps /\ (pc = "step" => n_steps < NRolloutSteps)
    /\ pc = "flush" => n_steps = NRolloutSteps

C8_Witness ==
    /\ pc = "flush"
    /\ n_steps = NRolloutSteps
    /\ buf_pos = NRolloutSteps
    /\ total_timesteps = NRolloutSteps * NumEnvs
    /\ \A e \in Envs : ~dones[e]

\* The episode targets have been computed.
TargetsComputed == eval_pc \in {"first_run", "loop"}

\* C9: for every environment count N >= 1 and every n_eval_episodes >= 0 the
\* per-slot targets (n_eval_episodes + i) // N, i in 0 .. N-1, sum to
\* n_eval_episodes, in eval_model_track and in the identical-start test.
C9_TargetsSumToEpisodes ==
    TargetsComputed =>
        /\ DOMAIN episode_count_targets = 0 .. (n_envs - 1)
        /\ SumArray(episode_count_targets, n_envs) = n_eval_episodes

C9_Witness ==
    /\ TargetsComputed
    /\ n_envs > 1
    /\ n_eval_episodes % n_envs # 0
    /\ episode_count_targets[0] < episode_count_targets[n_envs - 1]
    /\ SumArray(episode_count_targets, n_envs) = n_eval_episodes

\* C10 as stated: with 4 environment slots and n_eval_episodes = 10 the
\* targets of slots 0, 1, 2, 3 are 3, 3, 2, 2.
C10_TargetsThreeThreeTwoTwo ==
    (TargetsComputed /\ n_envs = 4 /\ n_eval_episodes = 10) =>
        episode_count_targets = (0 :> 3) @@ (1 :> 3) @@ (2 :> 2) @@ (3 :> 2)

\* C10 amended: with 4 environment slots and n_eval_episodes = 10 the
\* targets of slots 0, 1, 2, 3 are 2, 2, 3, 3: the slots with the highest
\* indices take the remainder.
C10_TargetsTwoTwoThreeThree ==
    (TargetsComputed /\ n_envs = 4 /\ n_eval_episodes = 10) =>
        episode_count_targets = (0 :> 2) @@ (1 :> 2) @@ (2 :> 3) @@ (3 :> 3)

C10_Witness ==
    /\ TargetsComputed
    /\ n_envs = 4
    /\ n_eval_episodes = 10
    /\ episode_count_targets[0] = 2
    /\ episode_count_targets[3] = 3

\* The loop iteration (0, 1, ...) of the current cycle whose inference ran
\* last, and the batch C18 expects an inference of iteration t to run on.
InferenceHasRun ==
    \/ pc \in {"bootstrap", "register", "reconcile", "flush", "stopped", "aborted"}
    \/ pc = "step" /\ n_steps > 0
LastInferenceIteration ==
    IF pc = "stopped" \/ error = "TypeError:558" THEN n_steps ELSE n_steps - 1
BatchBefore(t) == IF t = 0 THEN ResetObs ELSE StepObs(t - 1)

\* C18: in cached observation mode inference issues no observation request,
\* and the batch of the inference of iteration t + 1 is the batch returned by
\* the step call of iteration t, the batch of the cycle's reset for the
\* first iteration.
C18_CachedInferenceUsesLastStepBatch ==
    ~use_fresh_obs =>
        /\ obs_requests = 0
        /\ InferenceHasRun => infer_obs = BatchBefore(LastInferenceIteration)
        /\ pc = "step" => last_obs = BatchBefore(n_steps)

C18_Witness ==
    /\ ~use_fresh_obs
    /\ iteration = 2
    /\ pc = "register"
    /\ n_steps = 2
    /\ infer_obs = StepObs(0)
    /\ new_obs = StepObs(1)
    /\ obs_requests = 0

\* C20: when the callback's on_step returns False, collect_rollouts returns
\* False without computing advantages, and learn leaves its loop without
\* calling train and goes on to on_training_end.
C20_StopProceedsToTrainingEnd ==
    /\ [](pc = "stopped" => advantage_calls = 0)
    /\ [][pc = "stopped" => pc' = "finished" /\ train_calls' = train_calls]_vars

\* C19: a bundled acquisition whose response does not hold exactly one entry
\* per environment slot is fatal: nothing is decoded, no environment's
\* memory is rolled over, nothing is saved into a slot and nothing returned.
C19_WrongLengthIsFatal ==
    (bundle_pc \notin {"idle", "start"} /\ Len(all_obsstrings) # n_envs) =>
        /\ bundle_pc = "aborted"
        /\ bundle_error = "AssertionError:1589"
        /\ all_observations = <<>>
        /\ \A i \in DOMAIN obs_buf : obs_buf[i] = <<>> /\ obs_memory[i] = 0
        /\ rtn_obs = <<>>

C19_Witness ==
    /\ bundle_pc = "aborted"
    /\ n_envs >= 2
    /\ frame_stacking
    /\ Len(all_obsstrings) = n_envs + 1
    /\ \A i \in DOMAIN obs_buf : obs_buf[i] = <<>>

\* The evaluation loop of eval_model_track has been left or is about to be.
TrackLoopOver ==
    /\ eval_fn = "eval_model_track"
    /\ eval_pc \in {"loop", "loop_exited"}
    /\ ~EvalLoopCondition(episode_counts, episode_count_targets)

\* C11: for N >= 2 and n_eval_episodes >= 1, whatever the order in which the
\* episodes finish, no reset indexes past the end of the generated list, and
\* when the loop of eval_model_track exits the sum of the per-slot counts,
\* the number of finished episodes and the number of pairs consumed all equal
\* n_eval_episodes, so that none of the three assertions fails.
C11_EvalCountersAgree ==
    (eval_fn = "eval_model_track" /\ n_envs >= 2 /\ n_eval_episodes >= 1) =>
        /\ eval_error = "none"
        /\ eval_pc # "aborted"
        /\ map_and_rotations_counter <= Len(map_and_rotations)
        /\ TrackLoopOver =>
              /\ SumArray(episode_counts, n_envs) = n_eval_episodes
              /\ finished_episodes = n_eval_episodes
              /\ map_and_rotations_counter = n_eval_episodes

C11_Witness ==
    /\ eval_fn = "eval_model_track"
    /\ eval_pc = "loop_exited"
    /\ n_envs >= 2
    /\ n_eval_episodes > n_envs
    /\ finished_episodes = n_eval_episodes
    /\ map_and_rotations_counter = n_eval_episodes
    /\ \E i, j \in DOMAIN slot_pair : i < j /\ episode_count_targets[i] < episode_count_targets[j]

\* C12: in eval_model_track every counted episode starts from a generated
\* pair and every generated pair starts exactly one counted episode, for
\* every N and n_eval_episodes, n_eval_episodes < N included.
C12_CountedEpisodesStartFromPairs ==
    eval_fn = "eval_model_track" =>
        /\ stray_episodes = 0
        /\ \A k \in DOMAIN pair_episodes : pair_episodes[k] <= 1
        /\ eval_pc = "loop_exited" =>
              \A k \in DOMAIN pair_episodes : pair_episodes[k] = 1

\* x is the float nearest to a / b (1 <= a / b < 2, b < 32): b * x, computed
\* exactly, differs from a by less than 2^-48.
IsQuotient(x, a, b) ==
    LET r == MulBits(x.f, b)
        whole == x.i * b + r[1]
        lead == SubSeq(r[2], 1, 48)
    IN  /\ ~x.neg
        /\ Len(x.f) = Precision - 1
        /\ \/ whole = a /\ \A k \in DOMAIN lead : lead[k] = 0
           \/ whole = a - 1 /\ \A k \in DOMAIN lead : lead[k] = 1

\* C13: for the rotation range [-15, 15] and n_eval_episodes = 20 the step is
\* 30/19, the first rotation is -15, the last is 15 and the rotations never
\* decrease along the sequence.
C13_TwentyRotations ==
    (eval_fn = "generate_map_and_rotations" /\ eval_pc = "generated"
        /\ rotation_range = <<0 - 15, 15>> /\ n_eval_episodes = 20) =>
        /\ IsQuotient(rotation_step, 30, 19)
        /\ Len(map_and_rotations) = 20
        /\ map_and_rotations[1][2] = 0 - 15
        /\ map_and_rotations[20][2] = 15
        /\ \A k \in 1 .. 19 : map_and_rotations[k][2] <= map_and_rotations[k + 1][2]

C13_Witness ==
    /\ eval_fn = "generate_map_and_rotations"
    /\ eval_pc = "generated"
    /\ rotation_range = <<0 - 15, 15>>
    /\ n_eval_episodes = 20
    /\ map_and_rotations[2][2] = 0 - 13
    /\ map_and_rotations[10][2] = 0
    /\ map_and_rotations[11][2] = 0
    /\ map_and_rotations[20][2] = 15

\* Half of s, truncated toward zero.
TruncatedHalf(s) == IF s >= 0 THEN s \div 2 ELSE 0 - ((0 - s) \div 2)

\* C14: for n_eval_episodes = 1 generate_map_and_rotations returns exactly one
\* pair: the first map of the difficulty with the midpoint of the rotation
\* range, truncated to an integer.
C14_SingleEpisodeMidpoint ==
    (eval_fn = "generate_map_and_rotations" /\ eval_pc = "generated"
        /\ n_eval_episodes = 1) =>
        /\ Len(map_and_rotations) = 1
        /\ map_and_rotations[1][1] = MapType(track_numbers[1])
        /\ map_and_rotations[1][2] = TruncatedHalf(rotation_range[1] + rotation_range[2])

C14_Witness ==
    /\ eval_fn = "generate_map_and_rotations"
    /\ eval_pc = "generated"
    /\ n_eval_episodes = 1
    /\ rotation_range = <<0 - 8, 7>>
    /\ Len(track_numbers) > 1
    /\ map_and_rotations = <<(<<MapType(track_numbers[1]), 0>>)>>

\* The number of pairs of the generated sequence that use track t.
MapCount(t) ==
    Cardinality({k \in DOMAIN map_and_rotations : map_and_rotations[k][1] = MapType(t)})

\* C15: for every n_eval_episodes each map of the difficulty appears the same
\* number of times in the generated sequence.
C15_MapsInEqualProportion ==
    (eval_fn = "generate_map_and_rotations" /\ eval_pc = "generated") =>
        \A a, b \in DOMAIN track_numbers :
            MapCount(track_numbers[a]) = MapCount(track_numbers[b])

\* C16: eval_model_track hands the generated pairs out in the order of the
\* list, pair k to the k-th reset, whatever slot the reset is for: the
\* sequence of pairs handed out depends on the difficulty, the spawn mode and
\* n_eval_episodes only, not on which slots finish first.
C16_PairsHandedInListOrder ==
    (eval_fn = "eval_model_track" /\ eval_pc \in {"loop", "loop_exited", "aborted"}) =>
        /\ map_and_rotations =
              GenerateMapAndRotations(rotation_range, track_numbers, n_eval_episodes)
        /\ Len(handed) = map_and_rotations_counter
        /\ \A k \in DOMAIN handed : handed[k] = map_and_rotations[k]

C16_Witness ==
    /\ eval_fn = "eval_model_track"
    /\ eval_pc = "loop"
    /\ map_and_rotations_counter > n_envs
    /\ \E i, j \in DOMAIN slot_pair : i < j /\ slot_pair[i] > slot_pair[j] /\ slot_pair[j] > 0
    /\ handed[Len(handed)] = map_and_rotations[Len(handed)]

\* C17: if every episode that is started ends, the evaluation loop of
\* eval_model_track, once entered, terminates, and when it has terminated
\* every slot has counted exactly its target.
C17_EvalLoopTerminates ==
    /\ (eval_fn = "eval_model_track" /\ eval_pc = "loop") ~> (eval_pc = "loop_exited")
    /\ [](TrackLoopOver => episode_counts = episode_count_targets)

C17_Witness ==
    /\ eval_fn = "eval_model_track"
    /\ eval_pc = "loop_exited"
    /\ n_envs >= 2
    /\ n_eval_episodes % n_envs # 0
    /\ episode_counts = episode_count_targets
    /\ episode_counts[n_envs - 1] >= 2

\* C21: when a collection cycle reaches a new best rollout success rate and
\* the checkpoint file saved for the previous best is absent, the removal is
\* skipped: the cycle saves the new checkpoint and returns normally.
C21_MissingCheckpointTolerated ==
    best_file_missing =>
        /\ cyc_error = "none"
        /\ cyc_pc \in {"returned", "learn", "finished"}
        /\ rollout_best_model_name \in model_files

\* C22: whenever eval_model_track or test_episodes_identical_start_conditions
\* returns normally, the video target set last on logging slot 0 and on
\* logging slot 1 is the empty string.
C22_VideoTargetsClearedOnReturn ==
    run_pc = "returned" =>
        \A i \in LogIndices : i \in DOMAIN video_filename /\ video_filename[i] = ""

\* A run of one episode on two environments has returned: slot 0 owed no
\* episode, so nothing but the last statements cleared its target.
C22_Witness ==
    /\ run_pc = "returned"
    /\ run_n_envs = 2
    /\ run_n_episodes = 1
    /\ run_targets[0] = 0
    /\ video_filename[0] = ""

\* C23: test_episodes_identical_start_conditions on two or more environments
\* and one or more episodes never fails its two final assertions, collects
\* exactly n_episodes signatures, and reports the largest number of episodes
\* sharing one signature divided by n_episodes: between 1/n_episodes and 1,
\* and 1 exactly when all episodes share one signature.
C23_RepeatabilityRate ==
    (run_fn = "test_episodes_identical_start_conditions"
        /\ run_n_envs >= 2 /\ run_n_episodes >= 1) =>
        /\ run_error \notin {"AssertionError:1173", "AssertionError:1174"}
        /\ run_pc \in {"record", "returned"} =>
            LET rate == most_common_episode_result_rate
                sigs == {episode_results[k] : k \in DOMAIN episode_results}
                shared(s) == Cardinality({k \in DOMAIN episode_results :
                                            episode_results[k] = s})
            IN  /\ Len(episode_results) = run_n_episodes
                /\ rate[2] = run_n_episodes
                /\ \E s \in sigs : shared(s) = rate[1]
                /\ \A s \in sigs : shared(s) <= rate[1]
                /\ 1 <= rate[1] /\ rate[1] <= run_n_episodes
                /\ (rate[1] = rate[2]) <=> (Cardinality(sigs) = 1)

\* The test has returned a rate strictly between 1/n_episodes and 1: the
\* most common signature is not the one of the first episode.
C23_Witness ==
    /\ run_fn = "test_episodes_identical_start_conditions"
    /\ run_pc = "returned"
    /\ run_n_episodes = 3
    /\ most_common_episode_result_rate = <<2, 3>>
    /\ episode_results[1] # episode_results[2]
    /\ episode_results[2] = episode_results[3]

\* C24 (as stated): a replay that returns normally has reproduced every
\* recorded action, value and log-probability of every step within 1e-5
\* absolute (10 units).
C24_WithinAbsoluteTolerance ==
    rep_pc = "returned" =>
        \A i \in DOMAIN recorded : \A k \in 1 .. 3 :
            Abs(recorded[i][k] - reproduced[i][k]) <= 10

\* C24 (amended): a replay that returns normally has reproduced every
\* recorded action, value and log-probability of every step within
\* 1e-8 + 1e-5 * |reproduced number|.
C24_WithinAllCloseTolerance ==
    rep_pc = "returned" =>
        \A i \in DOMAIN recorded : \A k \in 1 .. 3 :
            100000 * Abs(recorded[i][k] - reproduced[i][k])
                <= 1000 + Abs(reproduced[i][k])

\* A replay has returned although a value of magnitude 2 was reproduced
\* 1.5e-5 off.
C24_Witness ==
    /\ rep_pc = "returned"
    /\ \E i \in DOMAIN recorded :
           /\ recorded[i][2] = Two
           /\ reproduced[i][2] = Two + 15

\* C25: replay_episode compares action, value and log-probability of every
\* step 0 .. L-1; the first comparison that fails ends it with that
\* assertion, and it returns only after all 3 * L comparisons passed.
C25_AllComparisonsOrFatal ==
    LET close(i, k) == 100000 * Abs(recorded[i][k] - reproduced[i][k])
                           <= 1000 + Abs(reproduced[i][k])
        L == recorded_episode_length
    IN  /\ rep_pc = "returned" =>
              /\ comparisons = 3 * L
              /\ Len(recorded) = L /\ Len(reproduced) = L
              /\ \A i \in 1 .. L : \A k \in 1 .. 3 : close(i, k)
        /\ (rep_pc \in {"compare", "aborted"} /\ rep_i < L) =>
              /\ \A i \in 1 .. rep_i : \A k \in 1 .. 3 : close(i, k)
              /\ rep_pc = "aborted" =>
                   \E k \in 1 .. 3 :
                       /\ ~close(rep_i + 1, k)
                       /\ \A j \in 1 .. (k - 1) : close(rep_i + 1, j)
                       /\ comparisons = 3 * rep_i + k
                       /\ rep_error = <<"AssertionError:1547", "AssertionError:1548",
                                        "AssertionError:1549">>[k]

\* A replay of two steps was ended by the log-probability of its second step.
C25_Witness ==
    /\ rep_pc = "aborted"
    /\ recorded_episode_length = 2
    /\ rep_error = "AssertionError:1549"
    /\ comparisons = 6

\* C26: record_episode leaves for an episode of L steps exactly the
\* artifacts infer_image_i, step_image_i, sampled_action_i, obtained_value_i
\* and obtained_log_prob_i for i in 0 .. L-1 and the length L;
\* replay_episode loads exactly that set; and with equal n_episodes a
\* replay pass that has ended went to exactly the episode directories the
\* recording pass made.
C26_ArtifactsAndDirectories ==
    LET names == {"infer_image", "step_image", "sampled_action",
                  "obtained_value", "obtained_log_prob"}
        saved(d) == {<<f[2], f[3]>> : f \in {g \in files_saved : g[1] = d}}
        loaded(d) == {<<f[2], f[3]>> : f \in {g \in files_loaded : g[1] = d}}
    IN  /\ \A e \in episode_steps :
               /\ e[1] \in dirs_created
               /\ <<e[1], e[2]>> \in lengths_saved
               /\ \A l \in lengths_saved : l[1] = e[1] => l[2] = e[2]
               /\ saved(e[1]) = names \X (0 .. (e[2] - 1))
               /\ (e[1] \in dirs_visited /\ rec_error \notin
                       {"FileNotFoundError:1470", "FileNotFoundError:1473"})
                     => loaded(e[1]) = saved(e[1])
        /\ \A d \in dirs_visited \ {e[1] : e \in episode_steps} :
               rec_error = "FileNotFoundError:1470" /\ loaded(d) = {}
        /\ \A f \in files_saved : f[1] \in {e[1] : e \in episode_steps}
        /\ rec_pc \in {"replay", "replayed"} =>
               /\ replay_n_episodes = rec_n_episodes
               /\ dirs_visited \subseteq dirs_created
        /\ rec_pc = "replayed" => dirs_visited = dirs_created

\* A replay pass over two episodes per setting has ended, one of them of
\* two steps.
C26_Witness ==
    /\ rec_pc = "replayed"
    /\ rec_n_episodes = 2
    /\ Cardinality(dirs_visited) = 6
    /\ <<<<"hard", "standard", 1>>, "step_image", 1>> \in files_loaded
    /\ <<<<"easy", "standard", 0>>, 1>> \in lengths_saved

\* The plain sum of the rewards stored from step t to the end of the horizon.
RewardSum(t) ==
    LET RECURSIVE sum(_)
        sum(k) == IF k > Len(gae_rewards) THEN 0 ELSE gae_rewards[k] + sum(k + 1)
    IN  sum(t)

\* No done flag is set before the last step.
NoDoneBeforeLast == \A t \in 2 .. Len(gae_episode_starts) : ~gae_episode_starts[t]

\* C27 (as stated): with gamma = 1, lambda = 1 and no done flag set before
\* the last step, the return of every step t is the plain sum of the rewards
\* stored from step t to the end of the horizon.
C27_ReturnIsRewardSum ==
    (gae_pc = "computed" /\ gae_gamma = 1 /\ gae_lambda = 1 /\ NoDoneBeforeLast) =>
        \A t \in DOMAIN gae_rewards : gae_returns[t] = RewardSum(t)

\* C27 (amended): with gamma = 1, lambda = 1, no done flag set before the
\* last step and the done flag set at the last step, the return of every
\* step t is the plain sum of the rewards stored from step t to the end of
\* the horizon.
C27_ReturnIsRewardSumWhenDone ==
    (gae_pc = "computed" /\ gae_gamma = 1 /\ gae_lambda = 1 /\ NoDoneBeforeLast
        /\ gae_dones) =>
        \A t \in DOMAIN gae_rewards : gae_returns[t] = RewardSum(t)

\* The returns of three steps that end with a done flag, with non-zero
\* value estimates in the buffer and after the last step.
C27_Witness ==
    /\ gae_pc = "computed"
    /\ gae_gamma = 1 /\ gae_lambda = 1
    /\ NoDoneBeforeLast /\ gae_dones
    /\ gae_rewards = <<1, 2, 1>>
    /\ gae_values = <<3, 0, 3>>
    /\ gae_last_values = 5
    /\ gae_returns = <<4, 3, 1>>

\* C28: in every collection cycle and every run of eval_model_track the
\* aggregator starts empty, has observed exactly one terminal info per
\* counted done flag, and computeRates is called exactly once: after the
\* last observation (never while the loop runs) and before any rate is
\* read or recorded.
C28_AggregatorLifecycle ==
    LET inCycle == cyc_pc \in {"loop", "observe", "stopped", "flush", "record",
                               "returned"}
        inEval == run_fn = "eval_model_track" /\ run_pc \in {"loop", "record",
                                                             "returned"}
        inLoop == cyc_pc \in {"loop", "observe", "stopped", "flush"}
                     \/ (inEval /\ run_pc = "loop")
        er == episodes_results
    IN  (inCycle \/ inEval) =>
            /\ er.completed_episodes = done_flags
            /\ er.success_count + er.timeout_count = done_flags
            /\ (cyc_pc = "loop" /\ cyc_n_steps = 0) => done_flags = 0
            /\ (inEval /\ run_finished = 0) => done_flags = 0
            /\ inLoop <=> (er.computed = 0)
            /\ ~inLoop <=> (er.computed = 1)
            /\ late_observes = 0
            /\ premature_reads = 0
            /\ rates_read > 0 => er.computed = 1
            /\ (cyc_pc = "returned" \/ run_pc = "returned") => rates_read > 0

\* The second collection cycle of a run has recorded its rates: its
\* aggregator saw the two episodes that ended in it, the first cycle's four
\* are not in it.
C28_Witness ==
    /\ cyc_pc = "returned"
    /\ cyc_iteration = 2
    /\ rollout_best_success_rate = <<1, 1>>
    /\ done_flags = 2
    /\ episodes_results.completed_episodes = 2
    /\ episodes_results.success_rate = <<1, 2>>
    /\ episodes_results.computed = 1
    /\ rates_read = 1

\* C29: computeRates called twice with no observation in between leaves the
\* rates that the first call left.
C29_FinalizeIdempotent ==
    res_finalized = 2 =>
        <<episodes_results.success_rate, episodes_results.timeout_rate>> = rates_once

\* Three episodes were observed, two of them successes, and computeRates
\* has been called twice since.
C29_Witness ==
    /\ res_finalized = 2
    /\ episodes_results.completed_episodes = 3
    /\ episodes_results.success_rate = <<2, 3>>
    /\ episodes_results.timeout_rate = <<1, 3>>
    /\ episodes_results.computed = 2

\* C30: for a Box action space every component of the actions passed to the
\* step call in collection, evaluation and recording lies within
\* [action_space.low, action_space.high], and the actions that
\* rollout_buffer.add has just received are the policy's output, unclipped.
C30_ClippedToEnvUnclippedToBuffer ==
    /\ (action_space.box /\ clipped_actions # <<>>) =>
           /\ DOMAIN clipped_actions = DOMAIN actions
           /\ \A k \in DOMAIN clipped_actions :
                  /\ action_space.low <= clipped_actions[k]
                  /\ clipped_actions[k] <= action_space.high
                  /\ (action_space.low <= actions[k] /\ actions[k] <= action_space.high)
                         => clipped_actions[k] = actions[k]
    /\ ((cyc_pc = "loop" /\ cyc_n_steps > 0) \/ cyc_pc \in {"flush", "record", "returned"})
           => buffer_actions = actions

\* A collection loop has just added a batch that the bounds of the Box had
\* to clip on both sides for the step call.
C30_Witness ==
    /\ cyc_pc = "flush"
    /\ action_space.box
    /\ actions = <<0 - 2, 2>>
    /\ clipped_actions = <<0 - 1, 1>>
    /\ buffer_actions = <<0 - 2, 2>>

\* C31: the episode-start flag a buffer row holds for an environment is set
\* exactly when the simulator step registered for that row and environment
\* is step 0 of an episode; row 0 of every cycle, which follows a reset of
\* all environments, holds a set flag for every environment.
C31_EpisodeStartMarksFirstStep ==
    \A r \in DOMAIN buffer_steps :
       /\ \A e \in Envs :
             buffer_steps[r][e] # 0 - 1 =>
                (buffer_episode_starts[r][e] <=> buffer_steps[r][e] = 0)
       /\ r = 1 => \A e \in Envs : buffer_episode_starts[r][e]

\* C33: a buffer row's observation batch is the batch its actions, values
\* and log-probabilities were inferred from; in fresh mode that batch was
\* acquired by the one acquisition made for that inference, which asked every
\* environment.
C33_RowHoldsTheBatchInferredFrom ==
    /\ \A r \in DOMAIN buffer_observations :
          /\ buffer_observations[r] = buffer_inferred_from[r]
          /\ row_use_fresh_obs => buffer_observations[r] = FreshBatch(r)
    /\ (row_use_fresh_obs /\ row_pc \in {"add", "register", "reconcile", "stopped"}) =>
          /\ obs_given = FreshBatch(acquisitions)
          /\ obs_returned = obs_given
          /\ acquired_envs = Envs
          /\ acquisitions = IF row_pc = "stopped" THEN row_n_steps + 1
                            ELSE row_n_steps
    /\ ~row_use_fresh_obs => acquisitions = 0

\* The second row of the second cycle has been written in fresh mode.
C33_Witness ==
    /\ row_use_fresh_obs
    /\ row_iteration = 2
    /\ row_pc = "register"
    /\ Len(buffer_observations) = 2
    /\ buffer_observations[2] = FreshBatch(2)
    /\ buffer_inferred_from[2] = FreshBatch(2)
    /\ acquired_envs = Envs

C38_FiveValuesUnderBothTransports == rec_error # "ValueError:1304"

\* C34: in eval_model_track and test_episodes_identical_start_conditions the
\* count of a slot never exceeds its target: the episodes counted are the sum
\* of the per-slot counts, each was handed to the aggregator (or its signature
\* appended) exactly once, and the pair counter moved only for the first-run
\* resets and for counted episodes of slots that still owed one, so a done
\* flag of a slot that had met its target changed none of them.
C34_CountsBoundedByTargets ==
    run_pc \in {"loop", "record", "returned"} =>
        /\ \A i \in DOMAIN run_counts : run_counts[i] <= run_targets[i]
        /\ run_finished = SumArray(run_counts, run_n_envs)
        /\ done_flags = run_finished
        /\ IF run_fn = "eval_model_track"
           THEN /\ episodes_results.completed_episodes = run_finished
                /\ run_counter =
                       AmountOfEnvsFirstRun(run_n_envs, run_n_episodes)
                       + SumArray([i \in DOMAIN run_counts |->
                                      IF run_targets[i] = 0 THEN 0
                                      ELSE Min(run_counts[i], run_targets[i] - 1)],
                                  run_n_envs)
           ELSE /\ Len(episode_results) = run_finished
                /\ run_counter = 0

\* eval_model_track with two slots and three episodes: slot 0 has met its
\* target of one episode, slot 1 still owes one of its two, and the last step
\* call reported the end of a further episode in slot 0.
C34_Witness ==
    /\ run_fn = "eval_model_track"
    /\ run_pc = "loop"
    /\ run_n_envs = 2
    /\ run_n_episodes = 3
    /\ run_counts[0] = 1
    /\ run_targets[0] = 1
    /\ run_counts[1] = 1
    /\ run_targets[1] = 2
    /\ done_unread

\* C40: eval_model_track and test_episodes_identical_start_conditions address
\* only slots that exist: once the video targets have been set, every logging
\* slot is one of the run's n_envs slots and no IndexError was raised, for any
\* number of environments from one up.
C40_OnlyExistingSlotsAddressed ==
    run_pc # "start" =>
        /\ LogIndices \subseteq 0 .. (run_n_envs - 1)
        /\ run_error \notin {"IndexError:857", "IndexError:1089"}

\* C37: rollout_best_success_rate never decreases and is changed only by the
\* rate record of a cycle, which leaves it at the larger of its value and the
\* cycle's success rate (so after each completed cycle it is the largest rate
\* so far); a cycle whose rate matches or exceeds it and returns has removed
\* the previous checkpoint and saved one named after its own rate and step
\* count, and at most one rollout-best checkpoint is on disk at any time.
C37_BestRateAndSingleCheckpoint ==
    [][ LET best == rollout_best_success_rate
            rate == episodes_results.success_rate
            reached == rate[1] * best[2] >= best[1] * rate[2]
        IN  /\ rollout_best_success_rate'[1] * best[2]
                   >= best[1] * rollout_best_success_rate'[2]
            /\ cyc_pc # "record" =>
                   /\ rollout_best_success_rate' = best
                   /\ model_files' = model_files
            /\ cyc_pc = "record" =>
                   rollout_best_success_rate' = IF reached THEN rate ELSE best
            /\ (cyc_pc = "record" /\ cyc_pc' = "returned") =>
                   /\ reached =>
                          /\ rollout_best_model_name' =
                                 RolloutModelName(rate, cyc_num_timesteps)
                          /\ \A f \in model_files :
                                 f \in model_files' => f = rollout_best_model_name'
                   /\ ~reached =>
                          /\ rollout_best_model_name' = rollout_best_model_name
                          /\ model_files' = model_files
                   /\ model_files' = {rollout_best_model_name'}
            /\ Cardinality(model_files') <= 1
      ]_vars

\* The second cycle of a run has returned with a success rate that matched or
\* exceeded the best of the first: the checkpoint on disk is the one named
\* after the second cycle's step count and no other is left.
C37_Witness ==
    /\ cyc_pc = "returned"
    /\ cyc_iteration = 2
    /\ rollout_best_success_rate[1] > 0
    /\ rollout_best_model_name # ""
    /\ rollout_best_model_name[3] = cyc_num_timesteps
    /\ cyc_num_timesteps = 2 * CycRolloutSteps * CycNumEnvs
    /\ model_files = {rollout_best_model_name}

\* C35: in every iteration of learn train is called once, and only after the
\* collection cycle of that iteration has computed its advantages (an
\* iteration cut short by a callback stop calls neither); the evaluation
\* procedures are called only after the train call of their iteration and
\* only in iterations whose number is a multiple of log_interval.
C35_TrainOnceThenEvaluate ==
    lrn_pc # "idle" =>
        /\ lrn_trains <= lrn_advantages
        /\ lrn_advantages <= lrn_iteration
        /\ lrn_pc \in {"collect", "stopped"} =>
               lrn_advantages = lrn_iteration - 1 /\ lrn_trains = lrn_iteration - 1
        /\ lrn_pc = "collected" =>
               lrn_advantages = lrn_iteration /\ lrn_trains = lrn_iteration - 1
        /\ lrn_pc \in {"eval", "learn", "returned"} =>
               lrn_advantages = lrn_iteration /\ lrn_trains = lrn_iteration
        /\ lrn_pc = "aborted" =>
               IF lrn_error = "TypeError:558"
               THEN lrn_advantages = lrn_iteration - 1
                       /\ lrn_trains = lrn_iteration - 1
               ELSE lrn_advantages = lrn_iteration /\ lrn_trains = lrn_iteration
        /\ \A k \in DOMAIN lrn_evals :
               /\ lrn_evals[k][1] >= 1
               /\ lrn_evals[k][1] <= lrn_trains
               /\ log_interval[1] = "int"
               /\ log_interval[2] # 0
               /\ lrn_evals[k][1] % log_interval[2] = 0

\* With log_interval = 2 the second iteration has trained and then run the
\* four evaluation procedures; the first iteration ran none.
C35_Witness ==
    /\ lrn_pc = "learn"
    /\ log_interval = <<"int", 2>>
    /\ lrn_iteration = 2
    /\ lrn_trains = 2
    /\ Len(lrn_evals) = 4
    /\ \A k \in 1 .. 4 : lrn_evals[k] = <<2, EvalProcedures[k]>>

C39_RestoredAndSameParameters ==
    ft_pc = "returned" =>
        /\ ft_use_fresh_obs = ft_before
        /\ Len(ft_calls) = 2
        /\ ft_calls[1].use_fresh_obs
        /\ ~ft_calls[2].use_fresh_obs
        /\ [ft_calls[1] EXCEPT !.use_fresh_obs = FALSE] = ft_calls[2]

====
